---------------------------- MODULE Spec2Model ----------------------------
(***************************************************************************)
(* CreditFlow360 synthetic data generation engine.                         *)
(*                                                                         *)
(* Money is counted in thousands of rupees (every income and loan amount   *)
(* the generators produce is a multiple of 1,000).  Dates are day numbers. *)
(* A draw from the seeded random source is a choice from a finite set of   *)
(* draw vectors; uuid.uuid4() and datetime.now() are not seeded and are    *)
(* choices of the environment.                                             *)
(***************************************************************************)
EXTENDS Integers, Sequences, FiniteSets, TLC

VARIABLES
    entry,        \* the operation that was called from outside
    pc,           \* control point inside it
    ctl,          \* loop counters of the generator loop under way: i, n, b
    cfg,          \* NBFCDataGenerator.config and the arguments of the call
    now,          \* datetime.now() of the run
    custList,     \* generate_customers: the local list `customers`
    custDfs,      \* generate_batch_customers: the local list `dfs`
    customers,    \* the customer DataFrame returned
    loanList,     \* generate_loans: the local list `loans`
    loanDfs,      \* generate_batch_loans: the local list `dfs`
    loans,        \* the loan DataFrame returned (and later updated in place)
    alerts,       \* generate_all_fraud_scenarios: all_fraud_cases, then df
    csv,          \* data/raw_csv/*.csv, None until written
    log,          \* the lines the logger has written: steps and saves
    rng,          \* the seeded generators: which run this is, and the draws made
    transactions, \* the transaction DataFrame returned
    report,       \* generate_all: quality_report
    first,        \* what the first of two runs returned, None before
    package       \* generate_collateral_package: its arguments and locals

custVars == <<custList, custDfs, customers>>
loanVars == <<loanList, loanDfs, loans>>
pipeVars == <<transactions, report, first, package>>
vars == <<entry, pc, ctl, cfg, now, custVars, loanVars, alerts, csv, log, rng, pipeVars>>

\* Python's None, and a value that is present: a field that may be None holds
\* None or Some(v)
None == <<>>
Some(v) == <<v>>

----------------------------------------------------------------------------
(* Bounds of the model *)

MaxCustomers == 3
MaxBatch == 2
MaxLoans == 2
\* the day of the run, counted from start_date = datetime(2022, 1, 1)
Today == 400

----------------------------------------------------------------------------
(* Python helpers *)

Min(a, b) == IF a <= b THEN a ELSE b
Max(a, b) == IF a >= b THEN a ELSE b

\* round(x) of Python 3 for x = num / den, den > 0: ties go to the even integer
PyRound(num, den) ==
    LET q == num \div den
        r == num % den
    IN  IF 2 * r < den THEN q
        ELSE IF 2 * r > den THEN q + 1
        ELSE IF q % 2 = 0 THEN q ELSE q + 1

\* total // batch_size + (1 if total % batch_size else 0)
Batches(total, batch_size) ==
    (total \div batch_size) + (IF total % batch_size # 0 THEN 1 ELSE 0)

\* pd.concat(dfs, ignore_index=True) of a non-empty list of frames
RECURSIVE Concat(_)
Concat(dfs) == IF dfs = <<>> THEN <<>> ELSE Head(dfs) \o Concat(Tail(dfs))

----------------------------------------------------------------------------
(* random.seed(seed) and np.random.seed(seed) *)

\* Every generator seeds random and numpy.random in its constructor, so what
\* they draw is a function of the seed and of the calls made before.  rng.runs
\* is the number of runs the caller makes with one seed and one config,
\* rng.run the run under way, rng.tape the draws of the first of two runs and
\* rng.pos the number of draws of the second.  uuid.uuid4() and
\* datetime.now() read no seed and are no part of it.
NoReplay == [runs |-> 1, run |-> 1, tape |-> <<>>, pos |-> 0]

\* the draw the first run made where the second run is now
NextTape == rng.tape[rng.pos + 1]

\* the second run of two draws what the first run drew at the same place, as
\* long as it makes the same calls
Replays(kind, shape, payload) ==
    (/\ rng.run = 2
     /\ rng.pos < Len(rng.tape)
     /\ NextTape.kind = kind
     /\ NextTape.shape = shape) => payload = NextTape.payload

\* the generator after a draw
Drawn(kind, shape, payload) ==
    IF rng.runs = 1 THEN rng
    ELSE IF rng.run = 1
    THEN [rng EXCEPT !.tape = Append(@, [kind |-> kind, shape |-> shape,
                                         payload |-> payload])]
    ELSE [rng EXCEPT !.pos = @ + 1]

----------------------------------------------------------------------------
(* CustomerGenerator *)

EmploymentTypes ==
    {"Salaried", "Self-Employed Professional", "Business Owner",
     "Government Employee", "Contractual", "Retired", "Homemaker"}

\* generate_income: the band random.uniform draws base_income from, in thousands
IncomeBand(age, employment_type) ==
    IF employment_type = "Salaried" THEN
        IF age < 25 THEN <<250, 400>>
        ELSE IF age < 35 THEN <<400, 800>>
        ELSE IF age < 50 THEN <<800, 1500>>
        ELSE <<600, 1200>>
    ELSE IF employment_type = "Self-Employed Professional" THEN
        IF age < 35 THEN <<500, 1000>>
        ELSE IF age < 50 THEN <<1000, 2500>>
        ELSE <<800, 2000>>
    ELSE IF employment_type = "Business Owner" THEN
        IF age < 35 THEN <<600, 1500>>
        ELSE IF age < 50 THEN <<1500, 5000>>
        ELSE <<1000, 3000>>
    ELSE IF employment_type = "Government Employee" THEN <<400, 1200>>
    ELSE IF employment_type = "Retired" THEN <<300, 800>>
    ELSE <<200, 500>>

\* generate_income: base_income * uniform(0.9, 1.1), rounded to the nearest
\* 1,000; base in thousands, the factor in percent
generate_income(base_income, factor_pct) == PyRound(base_income * factor_pct, 100)

\* a score whose random variation is twice as wide
generate_credit_score_wide(age, income, employment_type, base, variation) ==
    LET a == (IF age > 35 THEN 25 ELSE 0) + (IF age > 50 THEN 25 ELSE 0)
        n == (IF income > 1000 THEN 30 ELSE 0) + (IF income > 2500 THEN 30 ELSE 0)
             + (IF income > 5000 THEN 40 ELSE 0)
        e == IF employment_type \in {"Government Employee", "Salaried"} THEN 30
             ELSE IF employment_type = "Self-Employed Professional" THEN 20
             ELSE IF employment_type = "Business Owner" THEN 10
             ELSE 0
        score == base + a + n + e + 2 * variation
    IN  Max(300, Min(900, score))

\* generate_credit_score, with its two random draws as arguments
generate_credit_score(age, income, employment_type, base, variation) ==
    LET a == (IF age > 35 THEN 25 ELSE 0) + (IF age > 50 THEN 25 ELSE 0)
        n == (IF income > 1000 THEN 30 ELSE 0) + (IF income > 2500 THEN 30 ELSE 0)
             + (IF income > 5000 THEN 40 ELSE 0)
        e == IF employment_type \in {"Government Employee", "Salaried"} THEN 30
             ELSE IF employment_type = "Self-Employed Professional" THEN 20
             ELSE IF employment_type = "Business Owner" THEN 10
             ELSE 0
        score == base + a + n + e + variation
    IN  Max(300, Min(900, score))

get_credit_tier(score) ==
    IF score >= 750 THEN "Prime"
    ELSE IF score >= 650 THEN "Near-Prime"
    ELSE IF score >= 550 THEN "Sub-Prime"
    ELSE "Deep-Subprime"

\* The draws of one iteration of generate_customers.  hi: base_income is the
\* upper end of its band (else the lower); acq_days_ago: today minus the
\* faker date_between('-3y', 'today').
CustomerDraws ==
    [age : {22, 40}, employment_type : {"Salaried", "Business Owner"},
     hi : {FALSE}, factor_pct : {90}, base : {600}, variation : {-50, 50},
     acq_days_ago : {10}, is_active : BOOLEAN]
    \cup
    [age : {30, 60}, employment_type : {"Retired", "Homemaker"},
     hi : {TRUE}, factor_pct : {110}, base : {750}, variation : {0},
     acq_days_ago : {10, 400}, is_active : {TRUE}]
    \cup
    [age : {30}, employment_type : {"Homemaker"},
     hi : {FALSE}, factor_pct : {90}, base : {600}, variation : {-50},
     acq_days_ago : {10}, is_active : {TRUE}]

\* the draws followed when the whole pipeline runs
PipelineCustomerDraws ==
    {d \in CustomerDraws :
        \/ d.employment_type = "Business Owner" /\ d.age = 40 /\ d.variation = 50
        \/ d.employment_type = "Homemaker" /\ d.base = 600}

\* the draws one iteration of generate_customers chooses from
CustomerDrawsHere ==
    IF entry = "generate_all" THEN PipelineCustomerDraws ELSE CustomerDraws

\* 'CUST' + str(i+1).zfill(8): zero-padded decimal, one string per number
CustomerId(i) == i + 1

\* the customer dict built by iteration i of generate_customers
MakeCustomer(i, d) ==
    LET band == IncomeBand(d.age, d.employment_type)
        annual_income == generate_income(IF d.hi THEN band[2] ELSE band[1], d.factor_pct)
        credit_score == generate_credit_score(d.age, annual_income, d.employment_type,
                                              d.base, d.variation)
    IN  [customer_id      |-> CustomerId(i),
         first_name       |-> Some("faker"),
         last_name        |-> Some("faker"),
         date_of_birth    |-> Some(now - d.age * 365),
         age              |-> d.age,
         employment_type  |-> d.employment_type,
         annual_income    |-> annual_income,
         credit_score     |-> credit_score,
         credit_tier      |-> get_credit_tier(credit_score),
         acquisition_date |-> now - d.acq_days_ago,
         is_active        |-> d.is_active]

\* where control goes when generate_customers returns
AfterCustomers ==
    IF entry = "generate_batch_customers" THEN "gbc_loop"
    ELSE IF entry = "generate_all" THEN "ga_step2"
    ELSE "done"

\* generate_customers is entered with n
CallCustomers(n) ==
    /\ custList' = <<>>
    /\ ctl' = [ctl EXCEPT !.i = 0, !.n = n]

\* one iteration of the loop of generate_customers
CustomerIter ==
    /\ pc = "gc_loop"
    /\ ctl.i < ctl.n
    /\ \E d \in CustomerDrawsHere :
          /\ Replays("customer", 1, d)
          /\ custList' = Append(custList, MakeCustomer(ctl.i, d))
          /\ rng' = Drawn("customer", 1, d)
    /\ ctl' = [ctl EXCEPT !.i = @ + 1]
    /\ UNCHANGED <<entry, pc, cfg, now, custDfs, customers, loanVars, alerts, csv, log, pipeVars>>

\* the loop is over: the frame is built, saved and returned
CustomerReturn ==
    /\ pc = "gc_loop"
    /\ ctl.i = ctl.n
    /\ csv' = [csv EXCEPT !.customers = Some(custList)]
    /\ IF entry = "generate_batch_customers"
       THEN /\ custDfs' = Append(custDfs, custList)
            /\ ctl' = [ctl EXCEPT !.b = @ + 1]
            /\ UNCHANGED customers
       ELSE /\ customers' = custList
            /\ UNCHANGED <<custDfs, ctl>>
    /\ log' = Append(log, "Saved customers")
    /\ pc' = AfterCustomers
    /\ UNCHANGED <<entry, cfg, now, custList, loanVars, alerts, rng, pipeVars>>

\* generate_batch_customers: the next batch is generated
BatchCustomersNext ==
    /\ pc = "gbc_loop"
    /\ ctl.b < Batches(cfg.num_customers, cfg.batch_size)
    /\ CallCustomers(Min(cfg.batch_size, cfg.num_customers - ctl.b * cfg.batch_size))
    /\ pc' = "gc_loop"
    /\ UNCHANGED <<entry, cfg, now, custDfs, customers, loanVars, alerts, csv, log, rng, pipeVars>>

\* generate_batch_customers: all batches are done and concatenated
\* (pd.concat raises ValueError on an empty list)
BatchCustomersReturn ==
    /\ pc = "gbc_loop"
    /\ ctl.b = Batches(cfg.num_customers, cfg.batch_size)
    /\ IF custDfs = <<>>
       THEN pc' = "raised" /\ UNCHANGED customers
       ELSE pc' = "done" /\ customers' = Concat(custDfs)
    /\ UNCHANGED <<entry, ctl, cfg, now, custList, custDfs, loanVars, alerts, csv, log, rng, pipeVars>>

----------------------------------------------------------------------------
(* LoanGenerator *)

\* self.products.  Rates in hundredths of a percent, amounts in thousands.
Products ==
    [HL001 |-> [type |-> "Home Loan", min_rate |-> 850, max_rate |-> 1050,
                min_amount |-> 1000, max_amount |-> 10000, max_tenure |-> 240,
                collateral |-> TRUE],
     HL002 |-> [type |-> "Home Loan", min_rate |-> 800, max_rate |-> 950,
                min_amount |-> 2000, max_amount |-> 20000, max_tenure |-> 300,
                collateral |-> TRUE],
     HL003 |-> [type |-> "Home Loan", min_rate |-> 875, max_rate |-> 1100,
                min_amount |-> 500, max_amount |-> 5000, max_tenure |-> 180,
                collateral |-> TRUE],
     AL001 |-> [type |-> "Auto Loan", min_rate |-> 950, max_rate |-> 1200,
                min_amount |-> 200, max_amount |-> 3000, max_tenure |-> 84,
                collateral |-> TRUE],
     AL002 |-> [type |-> "Auto Loan", min_rate |-> 1100, max_rate |-> 1400,
                min_amount |-> 100, max_amount |-> 2000, max_tenure |-> 60,
                collateral |-> TRUE],
     PL001 |-> [type |-> "Personal Loan", min_rate |-> 1100, max_rate |-> 1600,
                min_amount |-> 50, max_amount |-> 1500, max_tenure |-> 60,
                collateral |-> FALSE],
     PL002 |-> [type |-> "Personal Loan", min_rate |-> 1050, max_rate |-> 1400,
                min_amount |-> 100, max_amount |-> 2500, max_tenure |-> 72,
                collateral |-> FALSE],
     BL001 |-> [type |-> "Business Loan", min_rate |-> 1000, max_rate |-> 1400,
                min_amount |-> 500, max_amount |-> 50000, max_tenure |-> 120,
                collateral |-> TRUE],
     BL002 |-> [type |-> "Business Loan", min_rate |-> 1100, max_rate |-> 1500,
                min_amount |-> 100, max_amount |-> 20000, max_tenure |-> 60,
                collateral |-> TRUE],
     EL001 |-> [type |-> "Education Loan", min_rate |-> 800, max_rate |-> 1100,
                min_amount |-> 100, max_amount |-> 5000, max_tenure |-> 120,
                collateral |-> FALSE],
     EL002 |-> [type |-> "Education Loan", min_rate |-> 850, max_rate |-> 1200,
                min_amount |-> 500, max_amount |-> 20000, max_tenure |-> 180,
                collateral |-> TRUE]]

ProductIds == DOMAIN Products

\* the list random.choice picks the product from, for this customer
ProductChoices(customer) ==
    IF customer.annual_income > 2000
    THEN LET big == {p \in ProductIds : Products[p].min_amount > 1000}
         IN  IF big # {} THEN big ELSE ProductIds
    ELSE IF customer.employment_type \in {"Business Owner", "Self-Employed Professional"}
    THEN LET biz == {p \in ProductIds : Products[p].type = "Business Loan"}
         IN  IF biz # {} THEN biz ELSE ProductIds
    ELSE ProductIds

\* a multiple that starts at four times the income
IncomeMultipleFromFour(credit_score) == IF credit_score > 750 THEN 5 ELSE 4

\* calculate_eligibility: max_income_multiple
IncomeMultiple(credit_score) ==
    IF credit_score > 750 THEN 5
    ELSE IF credit_score > 650 THEN 4
    ELSE 3

\* calculate_eligibility: suggested_rate, in hundredths of a percent
SuggestedRate(credit_score, product) ==
    LET base10 == (product.min_rate + product.max_rate) * 5   \* thousandths
        rate10 == IF credit_score > 750 THEN base10 - 500
                  ELSE IF credit_score < 600 THEN base10 + 1000
                  ELSE base10
        clamped == Max(product.min_rate * 10, Min(product.max_rate * 10, rate10))
    IN  PyRound(clamped, 10)

\* calculate_eligibility: suggested_tenure
SuggestedTenure(product) ==
    IF product.type = "Home Loan" THEN Min(product.max_tenure, 240)
    ELSE IF product.type = "Auto Loan" THEN Min(product.max_tenure, 60)
    ELSE Min(product.max_tenure, 48)

calculate_eligibility(customer, product) ==
    [eligible         |-> TRUE,
     max_amount       |-> Min(product.max_amount,
                              customer.annual_income * IncomeMultiple(customer.credit_score)),
     min_amount       |-> product.min_amount,
     suggested_rate   |-> SuggestedRate(customer.credit_score, product),
     suggested_tenure |-> SuggestedTenure(product)]

\* (1 + monthly_rate) ** tenure in fixed point with four decimal places, by
\* repeated squaring; monthly_rate = rate / 120000
RECURSIVE Growth(_, _)
Growth(rate, tenure) ==
    IF tenure = 0 THEN 10000
    ELSE LET h == Growth(rate, tenure \div 2)
             sq == (h * h) \div 10000
         IN  IF tenure % 2 = 1 THEN (sq * (10000 + rate \div 12)) \div 10000 ELSE sq

\* calculate_emi, in paise, for an amount in thousands and a rate in
\* hundredths of a percent (monthly_rate = rate / 120000):
\* amount * monthly_rate * growth / (growth - 1)
calculate_emi(amount, rate, tenure) ==
    IF rate = 0 THEN (amount * 100000) \div tenure
    ELSE LET g == Growth(rate, tenure)
             per_thousand == (rate * g * 5) \div (6 * (g - 10000))
         IN  amount * per_thousand

\* generate_dpd: the days random.randint can return for a bucket
DpdDays(bucket) ==
    IF bucket = 0 THEN {0}
    ELSE IF bucket = 1 THEN 1..30
    ELSE IF bucket = 2 THEN 31..60
    ELSE IF bucket = 3 THEN 61..90
    ELSE 91..180

\* self.loan_status_mapping
LoanStatusOfBucket(bucket) ==
    IF bucket \in {0, 1} THEN "Active"
    ELSE IF bucket \in {2, 3} THEN "Overdue"
    ELSE "NPA"

\* get_dpd_bucket with the last boundary off by one: 90 days fall in '90+'
get_dpd_bucket_strict90(days) ==
    IF days = 0 THEN "0"
    ELSE IF days <= 30 THEN "1-30"
    ELSE IF days <= 60 THEN "31-60"
    ELSE IF days < 90 THEN "61-90"
    ELSE "90+"

get_dpd_bucket(days) ==
    IF days = 0 THEN "0"
    ELSE IF days <= 30 THEN "1-30"
    ELSE IF days <= 60 THEN "31-60"
    ELSE IF days <= 90 THEN "61-90"
    ELSE "90+"

\* 1 / (1 + exp((credit_score - 650) / 50)) in ten-thousandths: the logistic
\* curve at every 50 points of score, linear in between
LogisticAt(k) ==
    \* k = (score - 300) / 50, 0..12
    <<9991, 9975, 9933, 9820, 9526, 8808, 7311, 5000, 2689, 1192, 474, 180, 67>>[k + 1]

BasePd(credit_score) ==
    LET s == Max(300, Min(900, credit_score)) - 300
        k == s \div 50
        f == s % 50
    IN  IF k = 12 THEN LogisticAt(12)
        ELSE LogisticAt(k) - ((LogisticAt(k) - LogisticAt(k + 1)) * f) \div 50

\* calculate_pd, in ten-thousandths
calculate_pd(credit_score, dpd_days) ==
    LET dpd_factor == IF dpd_days > 0 THEN Min(3000, dpd_days * 20) ELSE 0
    IN  Min(9900, BasePd(credit_score) + dpd_factor)

\* calculate_lgd: the band random.uniform draws from, in ten-thousandths;
\* collateral_value is None or Some(value)
LgdBand(product_type, collateral_value, loan_amount) ==
    IF collateral_value # None /\ collateral_value[1] # 0 /\ loan_amount # 0
    THEN IF loan_amount * 10 < 5 * collateral_value[1] THEN <<1500, 3000>>
         ELSE IF loan_amount * 10 < 7 * collateral_value[1] THEN <<3000, 5000>>
         ELSE <<5000, 7000>>
    ELSE IF product_type = "Home Loan" THEN <<2000, 4000>>
    ELSE IF product_type = "Auto Loan" THEN <<3000, 5000>>
    ELSE <<6000, 8000>>

\* generate_collateral: the band of collateral_multiplier, in percent;
\* <<>> when the product type takes no collateral (the function returns None)
CollateralMultiplierBand(product_type) ==
    IF product_type = "Home Loan" THEN <<120, 150>>
    ELSE IF product_type = "Auto Loan" THEN <<110, 130>>
    ELSE IF product_type = "Business Loan" THEN <<120, 160>>
    ELSE <<>>

\* generate_collateral with its draws: the multiplier (percent) and the uuid4
\* behind collateral_id
generate_collateral(loan_amount, product_type, multiplier, uuid) ==
    IF CollateralMultiplierBand(product_type) = <<>> THEN None
    ELSE Some([collateral_id       |-> uuid,
               collateral_value    |-> PyRound(loan_amount * multiplier, 100),
               loan_to_value_ratio |-> PyRound(1000000, multiplier)])


\* uuid.uuid4().hex[:10].upper() behind a rejected loan's id, read as a
\* number: a string of ten decimal digits is the number it spells (1 is
\* '0000000001'), a string with a letter in it is a number from 1001 on
LoanUuids == {1, 1001, 1002}

\* uuid.uuid4().hex[:8].upper() behind a collateral id
CollateralUuids == {2001, 2002}

\* 'LOAN' + str(i+1).zfill(10): zero-padded decimal
LoanSeqId(i) == i + 1

\* The draws of one iteration of generate_loans, but for the customer
\* sampled.  amt_hi, mult_hi, lgd_hi: the uniform draw is the upper end of its
\* range (else the lower); app_days_ago: today minus the application date.
LoanDraws ==
    [product : {"PL001"}, amt_hi : {FALSE}, app_days_ago : {200},
     approved : {TRUE}, delay : {5}, bucket : 0..4, dpd_hi : BOOLEAN,
     coll : {FALSE}, mult_hi : {FALSE}, lgd_hi : {FALSE},
     uuid_coll : {2001}, uuid_loan : {1001}]
    \cup
    [product : {"HL003", "BL002"}, amt_hi : {TRUE}, app_days_ago : {20},
     approved : {TRUE}, delay : {15}, bucket : {2, 4}, dpd_hi : {TRUE},
     coll : BOOLEAN, mult_hi : {TRUE}, lgd_hi : {TRUE},
     uuid_coll : CollateralUuids, uuid_loan : {1001}]
    \cup
    [product : {"PL001", "BL001"}, amt_hi : {FALSE}, app_days_ago : {200},
     approved : {FALSE}, delay : {5}, bucket : {0}, dpd_hi : {FALSE},
     coll : {FALSE}, mult_hi : {FALSE}, lgd_hi : {FALSE},
     uuid_coll : {2001}, uuid_loan : LoanUuids]
    \cup
    [product : {"HL002"}, amt_hi : BOOLEAN, app_days_ago : {200},
     approved : BOOLEAN, delay : {5}, bucket : {0}, dpd_hi : {FALSE},
     coll : {FALSE}, mult_hi : {FALSE}, lgd_hi : {FALSE},
     uuid_coll : {2001}, uuid_loan : {1001}]
    \cup
    [product : {"EL002"}, amt_hi : {FALSE}, app_days_ago : {200},
     approved : {TRUE}, delay : {5}, bucket : {0}, dpd_hi : {FALSE},
     coll : {TRUE}, mult_hi : {FALSE}, lgd_hi : {FALSE},
     uuid_coll : {2001}, uuid_loan : {1001}]

\* a draw without the uuids in it
SeededLoanDraw(d) == [d EXCEPT !.uuid_coll = 0, !.uuid_loan = 0]

\* the draws followed when the whole pipeline runs
PipelineLoanDraws ==
    {d \in LoanDraws :
        \/ d.product = "PL001" /\ d.approved /\ d.bucket = 0 /\ ~d.dpd_hi
        \/ d.product = "HL003" /\ d.coll /\ d.bucket = 2 /\ d.uuid_coll = 2001
        \/ d.product = "BL002" /\ d.coll /\ d.bucket = 4
        \/ d.product = "PL001" /\ ~d.approved /\ d.uuid_loan \in {1, 1001}}

\* the draws one iteration of generate_loans chooses from
LoanDrawsHere ==
    IF entry = "generate_all" THEN PipelineLoanDraws ELSE LoanDraws

\* random.randint over the bucket's range of days
DpdDraw(bucket, dpd_hi) ==
    LET days == DpdDays(bucket)
    IN  IF dpd_hi THEN CHOOSE x \in days : \A y \in days : y <= x
        ELSE CHOOSE x \in days : \A y \in days : x <= y

\* round(random.uniform(lo, hi) / 1000) * 1000, in thousands
LoanAmount(product, eligibility, amt_hi) ==
    IF amt_hi THEN Min(product.max_amount, eligibility.max_amount)
    ELSE Min(product.min_amount, eligibility.max_amount)

\* The loan dicts built by iteration i of generate_loans for the customer and
\* the draws d.  loan_amount, sanctioned_amount and collateral_value are in
\* thousands of rupees; emi_amount and overdue_amount in paise;
\* processing_fee, gst_on_fee and net_disbursed_amount in tenths of a rupee;
\* exposure_at_default, expected_loss and current_balance in rupees;
\* probability_of_default and loss_given_default in ten-thousandths.

\* the dict of an approved loan
ApprovedLoan(i, customer, d) ==
    LET product == Products[d.product]
        eligibility == calculate_eligibility(customer, product)
        loan_amount == LoanAmount(product, eligibility, d.amt_hi)
        application_date == now - d.app_days_ago
        disbursement_date == application_date + d.delay
        days_past_due == DpdDraw(d.bucket, d.dpd_hi)
        npa_flag == days_past_due > 90
        emi_amount == calculate_emi(loan_amount, eligibility.suggested_rate,
                                    eligibility.suggested_tenure)
        paid_days == Min(now - disbursement_date, eligibility.suggested_tenure * 30)
        current_balance == Max(0, loan_amount * 1000
                                  - ((((emi_amount \div 100) * 7) \div 10) * paid_days) \div 30)
        overdue_amount == IF days_past_due > 0
                          THEN emi_amount * (days_past_due \div 30) ELSE 0
        mult == CollateralMultiplierBand(product.type)
        collateral == IF product.collateral /\ d.coll
                      THEN generate_collateral(loan_amount, product.type,
                               IF mult = <<>> THEN 0
                               ELSE IF d.mult_hi THEN mult[2] ELSE mult[1],
                               d.uuid_coll)
                      ELSE None
        collateral_value == IF collateral # None
                            THEN Some(collateral[1].collateral_value) ELSE None
        pd_score == calculate_pd(customer.credit_score, days_past_due)
        lgd == LgdBand(product.type, collateral_value, loan_amount)
        lgd_score == IF d.lgd_hi THEN lgd[2] ELSE lgd[1]
    IN  [loan_id              |-> LoanSeqId(i),
         customer_id          |-> customer.customer_id,
         product_id           |-> d.product,
         application_date     |-> application_date,
         disbursement_date    |-> Some(disbursement_date),
         first_emi_date       |-> Some(disbursement_date + 30),
         loan_amount          |-> loan_amount,
         sanctioned_amount    |-> Some(loan_amount),
         interest_rate        |-> Some(eligibility.suggested_rate),
         tenure_months        |-> Some(eligibility.suggested_tenure),
         emi_amount           |-> Some(emi_amount),
         processing_fee       |-> Some(loan_amount * 100),
         gst_on_fee           |-> Some(loan_amount * 18),
         net_disbursed_amount |-> Some(loan_amount * 10000 - loan_amount * 118),
         collateral_id        |-> IF collateral # None
                                  THEN Some(collateral[1].collateral_id) ELSE None,
         collateral_value     |-> collateral_value,
         loan_to_value_ratio  |-> IF collateral # None
                                  THEN Some(collateral[1].loan_to_value_ratio)
                                  ELSE None,
         bureau_score_at_origination |-> customer.credit_score,
         probability_of_default |-> Some(pd_score),
         loss_given_default   |-> Some(lgd_score),
         exposure_at_default  |-> Some(loan_amount * 900),
         expected_loss        |-> Some((((loan_amount * pd_score) \div 10000)
                                        * lgd_score) \div 10),
         current_balance      |-> current_balance,
         overdue_amount       |-> overdue_amount,
         days_past_due        |-> days_past_due,
         dpd_bucket           |-> get_dpd_bucket(days_past_due),
         npa_flag             |-> npa_flag,
         npa_date             |-> IF npa_flag
                                  THEN Some(disbursement_date + days_past_due)
                                  ELSE None,
         loan_status          |-> LoanStatusOfBucket(d.bucket),
         fraud_flag           |-> FALSE,
         fraud_type           |-> None,
         fraud_detection_date |-> None]

\* a rejected loan that keeps its sanctioned amount
RejectedLoanKeepsSanction(customer, d) ==
    LET product == Products[d.product]
        eligibility == calculate_eligibility(customer, product)
        loan_amount == LoanAmount(product, eligibility, d.amt_hi)
        application_date == now - d.app_days_ago
    IN  [loan_id              |-> d.uuid_loan,
         customer_id          |-> customer.customer_id,
         product_id           |-> d.product,
         application_date     |-> application_date,
         disbursement_date    |-> None,
         first_emi_date       |-> None,
         loan_amount          |-> loan_amount,
         sanctioned_amount    |-> Some(loan_amount),
         interest_rate        |-> None,
         tenure_months        |-> None,
         emi_amount           |-> None,
         processing_fee       |-> None,
         gst_on_fee           |-> None,
         net_disbursed_amount |-> None,
         collateral_id        |-> None,
         collateral_value     |-> None,
         loan_to_value_ratio  |-> None,
         bureau_score_at_origination |-> customer.credit_score,
         probability_of_default |-> None,
         loss_given_default   |-> None,
         exposure_at_default  |-> None,
         expected_loss        |-> None,
         current_balance      |-> 0,
         overdue_amount       |-> 0,
         days_past_due        |-> 0,
         dpd_bucket           |-> "0",
         npa_flag             |-> FALSE,
         npa_date             |-> None,
         loan_status          |-> "Rejected",
         fraud_flag           |-> FALSE,
         fraud_type           |-> None,
         fraud_detection_date |-> None]

\* the dict of a rejected loan
RejectedLoan(customer, d) ==
    LET product == Products[d.product]
        eligibility == calculate_eligibility(customer, product)
        loan_amount == LoanAmount(product, eligibility, d.amt_hi)
        application_date == now - d.app_days_ago
    IN  [loan_id              |-> d.uuid_loan,
         customer_id          |-> customer.customer_id,
         product_id           |-> d.product,
         application_date     |-> application_date,
         disbursement_date    |-> None,
         first_emi_date       |-> None,
         loan_amount          |-> loan_amount,
         sanctioned_amount    |-> None,
         interest_rate        |-> None,
         tenure_months        |-> None,
         emi_amount           |-> None,
         processing_fee       |-> None,
         gst_on_fee           |-> None,
         net_disbursed_amount |-> None,
         collateral_id        |-> None,
         collateral_value     |-> None,
         loan_to_value_ratio  |-> None,
         bureau_score_at_origination |-> customer.credit_score,
         probability_of_default |-> None,
         loss_given_default   |-> None,
         exposure_at_default  |-> None,
         expected_loss        |-> None,
         current_balance      |-> 0,
         overdue_amount       |-> 0,
         days_past_due        |-> 0,
         dpd_bucket           |-> "0",
         npa_flag             |-> FALSE,
         npa_date             |-> None,
         loan_status          |-> "Rejected",
         fraud_flag           |-> FALSE,
         fraud_type           |-> None,
         fraud_detection_date |-> None]

MakeLoan(i, customer, d) ==
    IF d.approved THEN ApprovedLoan(i, customer, d) ELSE RejectedLoan(customer, d)

\* a sampling frame that keeps the inactive customers
AllCustomers == customers

\* customers_df[customers_df['is_active'] == True]
ActiveCustomers == SelectSeq(customers, LAMBDA c : c.is_active)

\* where control goes when generate_loans returns or raises
AfterLoans ==
    IF entry = "generate_batch_loans" THEN "gbl_loop"
    ELSE IF entry = "generate_all" THEN "gbl_loop"
    ELSE "done"

\* generate_loans is entered with n
CallLoans(n) ==
    /\ loanList' = <<>>
    /\ ctl' = [ctl EXCEPT !.i = 0, !.n = n]

\* one iteration of the loop of generate_loans: a customer is sampled, a
\* product chosen and the loan, approved or rejected, appended
LoanIter ==
    /\ pc = "gl_loop"
    /\ ctl.i < ctl.n
    /\ ActiveCustomers # <<>>
    /\ \E k \in 1..Len(ActiveCustomers), d \in LoanDrawsHere :
          /\ d.product \in ProductChoices(ActiveCustomers[k])
          /\ Replays("loan", 1, [k |-> k, d |-> SeededLoanDraw(d)])
          /\ loanList' = Append(loanList, MakeLoan(ctl.i, ActiveCustomers[k], d))
          /\ rng' = Drawn("loan", 1, [k |-> k, d |-> SeededLoanDraw(d)])
    /\ ctl' = [ctl EXCEPT !.i = @ + 1]
    /\ UNCHANGED <<entry, pc, cfg, now, custVars, loanDfs, loans, alerts, csv, log, pipeVars>>

\* active_customers.sample(1) on an empty frame raises ValueError
LoanIterRaises ==
    /\ pc = "gl_loop"
    /\ ctl.i < ctl.n
    /\ ActiveCustomers = <<>>
    /\ pc' = "raised"
    /\ UNCHANGED <<entry, ctl, cfg, now, custVars, loanVars, alerts, csv, log, rng, pipeVars>>

\* the loop is over: the frame is built, saved to loans.csv and returned
LoanReturn ==
    /\ pc = "gl_loop"
    /\ ctl.i = ctl.n
    /\ csv' = [csv EXCEPT !.loans = Some(loanList)]
    /\ IF entry \in {"generate_batch_loans", "generate_all"}
       THEN /\ loanDfs' = Append(loanDfs, loanList)
            /\ ctl' = [ctl EXCEPT !.b = @ + 1]
            /\ UNCHANGED loans
       ELSE /\ loans' = loanList
            /\ UNCHANGED <<loanDfs, ctl>>
    /\ log' = Append(log, "Saved loans")
    /\ pc' = AfterLoans
    /\ UNCHANGED <<entry, cfg, now, custVars, loanList, alerts, rng, pipeVars>>

\* generate_batch_loans: the next batch is generated
BatchLoansNext ==
    /\ pc = "gbl_loop"
    /\ ctl.b < Batches(cfg.num_loans, cfg.loan_batch_size)
    /\ CallLoans(Min(cfg.loan_batch_size, cfg.num_loans - ctl.b * cfg.loan_batch_size))
    /\ pc' = "gl_loop"
    /\ UNCHANGED <<entry, cfg, now, custVars, loanDfs, loans, alerts, csv, log, rng, pipeVars>>

\* a generate_all that goes from the loans to the fraud scenarios
AfterBatchLoansSkipsTransactions == IF entry = "generate_all" THEN "ga_step4" ELSE "done"

\* where control goes when generate_batch_loans returns
AfterBatchLoans == IF entry = "generate_all" THEN "ga_step3" ELSE "done"

\* generate_batch_loans: all batches are done and concatenated
\* (pd.concat raises ValueError on an empty list)
BatchLoansReturn ==
    /\ pc = "gbl_loop"
    /\ ctl.b = Batches(cfg.num_loans, cfg.loan_batch_size)
    /\ IF loanDfs = <<>>
       THEN pc' = "raised" /\ UNCHANGED loans
       ELSE pc' = AfterBatchLoans /\ loans' = Concat(loanDfs)
    /\ UNCHANGED <<entry, ctl, cfg, now, custVars, loanList, loanDfs, alerts, csv, log, rng, pipeVars>>

----------------------------------------------------------------------------
(* FraudGenerator *)

\* fraud_type_weights
FraudTypeWeight(fraud_type) ==
    IF fraud_type = "Income Mismatch" THEN 60
    ELSE IF fraud_type = "Multiple Applications Same Collateral" THEN 75
    ELSE IF fraud_type = "Synthetic Identity" THEN 85
    ELSE IF fraud_type = "Early Payment Default" THEN 55
    ELSE 50

\* the risk level of a score
RiskLevelOf(risk_score) ==
    IF risk_score >= 80 THEN "Critical"
    ELSE IF risk_score >= 60 THEN "High"
    ELSE IF risk_score >= 40 THEN "Medium"
    ELSE "Low"

\* calculate_risk_score with its draw random.randint(-10, 10) as noise;
\* loan_amount in thousands.  Returns <<risk_score, risk_level>>.
calculate_risk_score(fraud_type, loan_amount, credit_score, days_past_due, noise) ==
    LET base_score ==
            FraudTypeWeight(fraud_type)
            + (IF loan_amount > 10000 THEN 15
               ELSE IF loan_amount > 5000 THEN 10
               ELSE IF loan_amount > 1000 THEN 5 ELSE 0)
            + (IF credit_score < 550 THEN 15
               ELSE IF credit_score < 650 THEN 10
               ELSE IF credit_score < 750 THEN 5 ELSE 0)
            + (IF days_past_due > 90 THEN 20
               ELSE IF days_past_due > 60 THEN 15
               ELSE IF days_past_due > 30 THEN 10 ELSE 0)
        risk_score == Min(100, Max(1, base_score + noise))
    IN  <<risk_score, RiskLevelOf(risk_score)>>

\* impact_percentages, in percent
ImpactPercentage(fraud_type) ==
    IF fraud_type = "Income Mismatch" THEN 30
    ELSE IF fraud_type = "Multiple Applications Same Collateral" THEN 60
    ELSE IF fraud_type = "Synthetic Identity" THEN 80
    ELSE IF fraud_type = "Early Payment Default" THEN 40
    ELSE 50

\* generate_financial_impact, in rupees, with its draw uniform(0.8, 1.2) in
\* percent; loan_amount in thousands
generate_financial_impact(fraud_type, loan_amount, factor_pct) ==
    (loan_amount * ImpactPercentage(fraud_type) * factor_pct) \div 10

\* uuid.uuid4().hex[:10].upper() behind an alert id
AlertUuids == {3001, 3002}

\* The draws made for one alert.  noise: random.randint(-10, 10); det_hi: the
\* detection date is the earliest the scenario can draw (else yesterday);
\* factor_pct: the uniform(0.8, 1.2) of the financial impact; status: the
\* place of the investigation status in the scenario's list; synth_score:
\* random.randint(75, 95) of the synthetic-identity scenario.
AlertDraws ==
    [noise : {-10, 0}, det_hi : {FALSE}, factor_pct : {80}, status : {1},
     synth_score : {75}]
    \cup
    [noise : {10}, det_hi : {TRUE}, factor_pct : {120}, status : {2},
     synth_score : {80, 95}]

\* the draws followed when the whole pipeline runs
PipelineAlertDraws ==
    {d \in AlertDraws : d.noise \in {0, 10} /\ d.synth_score \in {75, 80}}

\* the draws one alert chooses from
AlertDrawsHere ==
    IF entry = "generate_all" THEN PipelineAlertDraws ELSE AlertDraws

\* an alert dict
MakeAlert(uuid, loan_id, customer_id, date, type, score, level, collateral_id, status, impact) ==
    [alert_id             |-> uuid,
     loan_id              |-> loan_id,
     customer_id          |-> customer_id,
     detection_date       |-> date,
     alert_type           |-> type,
     risk_score           |-> score,
     risk_level           |-> level,
     described_collateral |-> collateral_id,
     investigation_status |-> status,
     resolution_date      |-> None,
     financial_impact     |-> impact]

\* the rows of customers_df with this customer_id
CustomersWithId(id) == SelectSeq(customers, LAMBDA c : c.customer_id = id)

\* loans_df.merge(customers_df[[...]], on='customer_id', how='left'), from
\* loan k on: one row per matching customer, or one row without income
RECURSIVE MergedFrom(_)
MergedFrom(k) ==
    IF k > Len(loans) THEN <<>>
    ELSE LET found == CustomersWithId(loans[k].customer_id)
             rows == IF found = <<>>
                     THEN <<[loan |-> loans[k], annual_income |-> None]>>
                     ELSE [j \in 1..Len(found) |->
                              [loan |-> loans[k],
                               annual_income |-> Some(found[j].annual_income)]]
         IN  rows \o MergedFrom(k + 1)

\* generate_fraud_scenario_income_mismatch: high_risk_customers
HighRiskCustomers ==
    {c.customer_id : c \in {customers[k] : k \in 1..Len(customers)}
                          \cap {x \in {customers[k] : k \in 1..Len(customers)} :
                                   x.credit_score < 600 /\ x.annual_income < 800}}

\* generate_fraud_scenario_income_mismatch: suspicious_loans
SuspiciousLoans ==
    SelectSeq(MergedFrom(1),
              LAMBDA r : /\ r.loan.customer_id \in HighRiskCustomers
                         /\ r.annual_income # None
                         /\ r.loan.loan_amount > r.annual_income[1] * 3
                         /\ r.loan.loan_status \in {"Active", "Overdue"})

\* the alert of the income-mismatch scenario for a suspicious loan
IncomeMismatchAlert(loan, d, uuid) ==
    LET customer == CustomersWithId(loan.customer_id)[1]
        risk == calculate_risk_score("Income Mismatch", loan.loan_amount,
                                     customer.credit_score, loan.days_past_due, d.noise)
    IN  MakeAlert(uuid, Some(loan.loan_id), loan.customer_id,
                  now - (IF d.det_hi THEN 30 ELSE 1), "Income Mismatch",
                  risk[1], risk[2], None,
                  <<"New", "In Progress", "Confirmed", "False Positive">>[d.status],
                  generate_financial_impact("Income Mismatch", loan.loan_amount,
                                            d.factor_pct))

\* the collateral ids of loans_df, in the order groupby yields them
RECURSIVE SortedSeq(_)
SortedSeq(S) ==
    IF S = {} THEN <<>>
    ELSE LET m == CHOOSE x \in S : \A y \in S : x <= y
         IN  <<m>> \o SortedSeq(S \ {m})

CollateralGroups ==
    SortedSeq({loans[k].collateral_id[1] :
                  k \in {j \in 1..Len(loans) : loans[j].collateral_id # None}})

\* the loans of one collateral group
GroupOf(collateral_id) ==
    SelectSeq(loans, LAMBDA l : l.collateral_id = Some(collateral_id))

\* sum of the loan amounts of a group
RECURSIVE TotalAmount(_)
TotalAmount(group) ==
    IF group = <<>> THEN 0 ELSE Head(group).loan_amount + TotalAmount(Tail(group))

\* the alert of the shared-collateral scenario for one loan of a group
CollateralAlert(loan, collateral_id, total_amount, d, uuid) ==
    LET risk == calculate_risk_score("Multiple Applications Same Collateral",
                                     loan.loan_amount, 650, loan.days_past_due, d.noise)
    IN  MakeAlert(uuid, Some(loan.loan_id), loan.customer_id,
                  now - (IF d.det_hi THEN 15 ELSE 1),
                  "Multiple Applications Same Collateral",
                  risk[1] + 10,
                  IF risk[1] > 70 THEN "High" ELSE risk[2],
                  Some(collateral_id),
                  <<"In Progress", "Confirmed", "False Positive">>[d.status],
                  generate_financial_impact("Multiple Applications Same Collateral",
                                            total_amount, d.factor_pct))

\* generate_fraud_scenario_early_default: early_default_loans
EarlyDefaultLoans ==
    SelectSeq(loans,
              LAMBDA l : /\ l.disbursement_date # None
                         /\ l.disbursement_date[1] >= now - 90
                         /\ l.days_past_due > 30
                         /\ l.loan_status \in {"Overdue", "NPA"})

\* the alert of the early-default scenario for a loan
EarlyDefaultAlert(loan, d, uuid) ==
    LET risk == calculate_risk_score("Early Payment Default", loan.loan_amount,
                    IF loan.bureau_score_at_origination # 0
                    THEN loan.bureau_score_at_origination ELSE 650,
                    loan.days_past_due, d.noise)
    IN  MakeAlert(uuid, Some(loan.loan_id), loan.customer_id,
                  now - (IF d.det_hi THEN 7 ELSE 1), "Early Payment Default",
                  risk[1], risk[2], None,
                  <<"New", "In Progress", "Confirmed">>[d.status],
                  generate_financial_impact("Early Payment Default", loan.loan_amount,
                                            d.factor_pct))

\* generate_fraud_scenario_synthetic_id: synthetic_candidates
SyntheticCandidates ==
    SelectSeq(customers,
              LAMBDA c : /\ c.credit_score < 550
                         /\ c.age > 25
                         /\ c.acquisition_date > now - 180)

\* the alert of the synthetic-identity scenario for a customer
SyntheticAlert(customer, d, uuid) ==
    MakeAlert(uuid, None, customer.customer_id,
              now - (IF d.det_hi THEN 20 ELSE 1), "Synthetic Identity",
              d.synth_score, "High", None,
              <<"New", "In Progress">>[d.status], 0)

\* the draws of a scenario over n candidates: the coin random.random() < p
\* of each, and the draws and the uuid of its alert
Picks(n) == [1..n -> [emit : BOOLEAN, d : AlertDrawsHere, u : AlertUuids]]

\* the draws and uuids of n alerts
DrawPicks(n) == [1..n -> [d : AlertDrawsHere, u : AlertUuids]]

\* the seeded part of the draws of a scenario
SeededPicks(p) == [k \in DOMAIN p |-> [emit |-> p[k].emit, d |-> p[k].d]]

\* the seeded part of the draws of a collateral group's alerts
SeededDrawPicks(coin, p) == [coin |-> coin, d |-> [k \in DOMAIN p |-> p[k].d]]

\* generate_fraud_scenario_income_mismatch: each suspicious loan becomes an
\* alert with probability 0.15
IncomeMismatchScenario ==
    /\ pc = "fs_income"
    /\ \E p \in Picks(Len(SuspiciousLoans)) :
          /\ Replays("income", Len(SuspiciousLoans), SeededPicks(p))
          /\ rng' = Drawn("income", Len(SuspiciousLoans), SeededPicks(p))
          /\ alerts' = alerts \o Concat(
              [k \in 1..Len(SuspiciousLoans) |->
                  IF p[k].emit
                  THEN <<IncomeMismatchAlert(SuspiciousLoans[k].loan, p[k].d, p[k].u)>>
                  ELSE <<>>])
    /\ pc' = "fs_collateral"
    /\ UNCHANGED <<entry, ctl, cfg, now, custVars, loanVars, csv, log, pipeVars>>

\* the alerts of a group, whoever its loans belong to
GroupAlertsAnyCustomer(collateral_id, emit, p, base) ==
    LET group == GroupOf(collateral_id)
    IN  IF Len(group) >= 2 /\ emit
        THEN [k \in 1..Len(group) |->
                 CollateralAlert(group[k], collateral_id, TotalAmount(group),
                                 p[base + k].d, p[base + k].u)]
        ELSE <<>>

\* the alerts of one collateral group, the draws of its loans taken from p at
\* offset base
GroupAlerts(collateral_id, emit, p, base) ==
    LET group == GroupOf(collateral_id)
        unique_customers == Cardinality({group[k].customer_id : k \in 1..Len(group)})
    IN  IF Len(group) >= 2 /\ emit /\ unique_customers >= 2
        THEN [k \in 1..Len(group) |->
                 CollateralAlert(group[k], collateral_id, TotalAmount(group),
                                 p[base + k].d, p[base + k].u)]
        ELSE <<>>

\* the number of loans in the groups before group g
RECURSIVE GroupBase(_)
GroupBase(g) ==
    IF g = 1 THEN 0 ELSE GroupBase(g - 1) + Len(GroupOf(CollateralGroups[g - 1]))

\* generate_fraud_scenario_collateral_fraud: each collateral id that two
\* loans or more name is taken with probability 0.3 and, if two customers or
\* more share it, every loan of it gets an alert
CollateralScenario ==
    /\ pc = "fs_collateral"
    /\ \E coin \in [1..Len(CollateralGroups) -> BOOLEAN],
          p \in DrawPicks(GroupBase(Len(CollateralGroups) + 1)) :
          /\ Replays("collateral", <<DOMAIN coin, DOMAIN p>>, SeededDrawPicks(coin, p))
          /\ rng' = Drawn("collateral", <<DOMAIN coin, DOMAIN p>>, SeededDrawPicks(coin, p))
          /\ alerts' = alerts \o Concat(
              [g \in 1..Len(CollateralGroups) |->
                  GroupAlerts(CollateralGroups[g], coin[g], p, GroupBase(g))])
    /\ pc' = "fs_early"
    /\ UNCHANGED <<entry, ctl, cfg, now, custVars, loanVars, csv, log, pipeVars>>

\* generate_fraud_scenario_early_default: each early-default loan becomes an
\* alert with probability 0.25
EarlyDefaultScenario ==
    /\ pc = "fs_early"
    /\ \E p \in Picks(Len(EarlyDefaultLoans)) :
          /\ Replays("early", Len(EarlyDefaultLoans), SeededPicks(p))
          /\ rng' = Drawn("early", Len(EarlyDefaultLoans), SeededPicks(p))
          /\ alerts' = alerts \o Concat(
              [k \in 1..Len(EarlyDefaultLoans) |->
                  IF p[k].emit
                  THEN <<EarlyDefaultAlert(EarlyDefaultLoans[k], p[k].d, p[k].u)>>
                  ELSE <<>>])
    /\ pc' = "fs_synthetic"
    /\ UNCHANGED <<entry, ctl, cfg, now, custVars, loanVars, csv, log, pipeVars>>

\* generate_fraud_scenario_synthetic_id: each candidate customer becomes an
\* alert with probability 0.10
SyntheticScenario ==
    /\ pc = "fs_synthetic"
    /\ \E p \in Picks(Len(SyntheticCandidates)) :
          /\ Replays("synthetic", Len(SyntheticCandidates), SeededPicks(p))
          /\ rng' = Drawn("synthetic", Len(SyntheticCandidates), SeededPicks(p))
          /\ alerts' = alerts \o Concat(
              [k \in 1..Len(SyntheticCandidates) |->
                  IF p[k].emit
                  THEN <<SyntheticAlert(SyntheticCandidates[k], p[k].d, p[k].u)>>
                  ELSE <<>>])
    /\ pc' = "fs_finish"
    /\ UNCHANGED <<entry, ctl, cfg, now, custVars, loanVars, csv, log, pipeVars>>

\* a resolution that keeps the confirmed alerts only: df = df[confirmed_mask]
ResolvedKeepsConfirmed(df, r) ==
    SelectSeq([k \in 1..Len(df) |->
                  [df[k] EXCEPT !.resolution_date = Some(now - r[k])]],
              LAMBDA a : a.investigation_status = "Confirmed")

\* df.loc[confirmed_mask, 'resolution_date'] = [...]: the confirmed alerts get
\* a resolution date, r days ago each
Resolved(df, r) ==
    [k \in 1..Len(df) |->
        IF df[k].investigation_status = "Confirmed"
        THEN [df[k] EXCEPT !.resolution_date = Some(now - r[k])]
        ELSE df[k]]

\* the alerts of df that reference a loan: df[df['loan_id'].notna()]
LoanAlerts(df) == SelectSeq(df, LAMBDA a : a.loan_id # None)

\* a back-fill that flags no loan
FlagLoansNone(ldf, df) == ldf

\* loans_df.loc[loans_df['loan_id'].isin(fraud_loan_ids), 'fraud_flag'] = True
FlagLoans(ldf, df) ==
    LET fraud_loan_ids == {LoanAlerts(df)[k].loan_id[1] : k \in 1..Len(LoanAlerts(df))}
    IN  [k \in 1..Len(ldf) |->
            IF ldf[k].loan_id \in fraud_loan_ids
            THEN [ldf[k] EXCEPT !.fraud_flag = TRUE] ELSE ldf[k]]

\* a pass of the loop whose mask is the alert's customer
ApplyAlertByCustomer(ldf, alert) ==
    [k \in 1..Len(ldf) |->
        IF ldf[k].customer_id = alert.customer_id
        THEN [ldf[k] EXCEPT !.fraud_type = Some(alert.alert_type),
                            !.fraud_detection_date = Some(alert.detection_date)]
        ELSE ldf[k]]

\* one pass of the loop over the alerts: the loans with the alert's loan_id
\* take its type and detection date
ApplyAlert(ldf, alert) ==
    [k \in 1..Len(ldf) |->
        IF ldf[k].loan_id = alert.loan_id[1]
        THEN [ldf[k] EXCEPT !.fraud_type = Some(alert.alert_type),
                            !.fraud_detection_date = Some(alert.detection_date)]
        ELSE ldf[k]]

\* the loop over the alerts that reference a loan, in the order of df
RECURSIVE ApplyAlerts(_, _)
ApplyAlerts(ldf, as) ==
    IF as = <<>> THEN ldf ELSE ApplyAlerts(ApplyAlert(ldf, Head(as)), Tail(as))

\* the sequence backwards
Reversed(s) == [k \in 1..Len(s) |-> s[Len(s) + 1 - k]]

\* a back-fill in which the first alert of a loan, not the last, stays
BackfillFirstStays(ldf, df) == ApplyAlerts(FlagLoans(ldf, df), Reversed(LoanAlerts(df)))

\* the back-fill of the fraud fields onto loans_df
Backfill(ldf, df) == ApplyAlerts(FlagLoans(ldf, df), LoanAlerts(df))

\* where control goes when generate_all_fraud_scenarios returns
AfterFraud == IF entry = "generate_all" THEN "ga_step5" ELSE "done"

\* the rest of generate_all_fraud_scenarios: the confirmed alerts are resolved, fraud_alerts.csv is written,
\* and, if there is any alert, the fraud fields of the loans are filled in
\* and loans.csv is written again
FraudFinish ==
    /\ pc = "fs_finish"
    /\ \E r \in [1..Len(alerts) -> {1, 30}] :
          /\ \A k \in 1..Len(alerts) :
                alerts[k].investigation_status # "Confirmed" => r[k] = 1
          /\ Replays("resolution", Len(alerts), r)
          /\ rng' = Drawn("resolution", Len(alerts), r)
          /\ alerts' = Resolved(alerts, r)
    /\ IF Len(alerts) > 0
       THEN /\ loans' = Backfill(loans, alerts')
            /\ csv' = [csv EXCEPT !.fraud_alerts = Some(alerts'), !.loans = Some(loans')]
       ELSE /\ loans' = loans
            /\ csv' = [csv EXCEPT !.fraud_alerts = Some(alerts')]
    /\ log' = log \o <<"Saved fraud alerts">>
                   \o (IF Len(alerts) > 0 THEN <<"Updated fraud flags">> ELSE <<>>)
    /\ pc' = AfterFraud
    /\ UNCHANGED <<entry, ctl, cfg, now, custVars, loanList, loanDfs, pipeVars>>

----------------------------------------------------------------------------
(* TransactionGenerator *)

\* The draws of generate_transactions_for_loan for one loan.  last_status:
\* the status of the last EMI (random.random() < success_prob, then
\* random.choice(['Failed', 'Pending'])), the EMIs before it succeeding;
\* prepay: random.random() < 0.2; prepay_pct: uniform(0.2, 0.5) in percent;
\* prepay_days_ago: random.randint(1, 30).
TxnDraws ==
    [last_status : {"Success"}, prepay : {FALSE}, prepay_pct : {20},
     prepay_days_ago : {1}]
    \cup
    [last_status : {"Failed", "Pending"}, prepay : {TRUE}, prepay_pct : {50},
     prepay_days_ago : {30}]

\* uuid.uuid4().hex[:8].upper() behind the transaction ids of one loan: the
\* k-th transaction draws base + k
TxnUuidBases == {4000, 5000}

\* generate_transaction_id: 'TXN' + datetime.now() as yymmdd + the uuid
generate_transaction_id(uuid) == <<now, uuid>>

\* 0.9 ** (month / total_emis) in ten-thousandths, by the chord of the curve
\* between 0 and 1 (within 0.15% of it)
Decay(month, total_emis) == 10000 - (1000 * month) \div total_emis

\* calculate_emi_components, in paise, for an amount in paise, a rate in
\* hundredths of a percent and an outstanding balance in rupees (taken to the
\* thousand, the amount to the rupee in the penalty)
calculate_emi_components(amount, interest_rate, outstanding, days_past_due) ==
    LET interest_component ==
            IF interest_rate > 0
            THEN PyRound((outstanding \div 1000) * interest_rate * 5, 6) ELSE 0
        principal_component == amount - interest_component
        penalty_component ==
            IF days_past_due > 0
            THEN PyRound((amount \div 100) * days_past_due, 15) ELSE 0
        gst_component == PyRound(penalty_component * 18, 100)
    IN  [principal |-> principal_component,
         interest  |-> interest_component,
         penalty   |-> penalty_component,
         gst       |-> gst_component]

\* the components of a Disbursement: None
NoComponents == [principal |-> None, interest |-> None, penalty |-> None,
                 gst |-> None]

\* a transaction dict: the columns transaction_id, loan_id, customer_id,
\* transaction_date, transaction_type, amount, the four components and
\* transaction_status.  amount is in tenths of a rupee on a Disbursement, in
\* paise on an EMI and a Prepayment; the components are in paise.
MakeTxn(loan, date, type, amount, c, status) ==
    [transaction_id      |-> None,
     loan_id             |-> loan.loan_id,
     customer_id         |-> loan.customer_id,
     transaction_date    |-> date,
     transaction_type    |-> type,
     amount              |-> amount,
     principal_component |-> c.principal,
     interest_component  |-> c.interest,
     penalty_component   |-> c.penalty,
     gst_component       |-> c.gst,
     transaction_status  |-> status]

\* months_since_disbursement = (end_date - disbursement_date).days // 30
MonthsSince(loan) == (now - loan.disbursement_date[1]) \div 30

\* total_emis without the tenure in it
TotalEmisNoTenure(loan) == MonthsSince(loan)

\* int(min(months_since_disbursement, loan['tenure_months'] or 0))
TotalEmis(loan) ==
    Min(MonthsSince(loan),
        IF loan.tenure_months # None THEN loan.tenure_months[1] ELSE 0)

\* an EMI dated a month late: first_emi_date + 30 * month
EmiTxnMonthLate(loan, month, total_emis, d) ==
    LET components ==
            calculate_emi_components(
                loan.emi_amount[1], loan.interest_rate[1],
                ((loan.current_balance \div 1000) * Decay(month, total_emis)) \div 10,
                IF month = total_emis THEN loan.days_past_due ELSE 0)
    IN  MakeTxn(loan, loan.first_emi_date[1] + 30 * month, "EMI",
                loan.emi_amount[1],
                [principal |-> Some(components.principal),
                 interest  |-> Some(components.interest),
                 penalty   |-> Some(IF loan.days_past_due > 0
                                    THEN components.penalty ELSE 0),
                 gst       |-> Some(IF loan.days_past_due > 0
                                    THEN components.gst ELSE 0)],
                IF month = total_emis THEN d.last_status ELSE "Success")

\* the EMI of a month: its date, its components and its status
EmiTxn(loan, month, total_emis, d) ==
    LET components ==
            calculate_emi_components(
                loan.emi_amount[1], loan.interest_rate[1],
                ((loan.current_balance \div 1000) * Decay(month, total_emis)) \div 10,
                IF month = total_emis THEN loan.days_past_due ELSE 0)
    IN  MakeTxn(loan, loan.first_emi_date[1] + 30 * (month - 1), "EMI",
                loan.emi_amount[1],
                [principal |-> Some(components.principal),
                 interest  |-> Some(components.interest),
                 penalty   |-> Some(IF loan.days_past_due > 0
                                    THEN components.penalty ELSE 0),
                 gst       |-> Some(IF loan.days_past_due > 0
                                    THEN components.gst ELSE 0)],
                IF month = total_emis THEN d.last_status ELSE "Success")

\* a Prepayment whatever the status of the loan
PrepaymentAnyStatus(loan, d) ==
    IF d.prepay
    THEN LET prepayment_amount == loan.current_balance * d.prepay_pct
         IN  <<MakeTxn(loan, now - d.prepay_days_ago, "Prepayment",
                       prepayment_amount,
                       [principal |-> Some(prepayment_amount), interest |-> Some(0),
                        penalty |-> Some(0), gst |-> Some(0)],
                       "Success")>>
    ELSE <<>>

\* the Prepayment of an Active loan, with round(prepayment_amount, 2)
Prepayment(loan, d) ==
    IF d.prepay /\ loan.loan_status = "Active"
    THEN LET prepayment_amount == loan.current_balance * d.prepay_pct
         IN  <<MakeTxn(loan, now - d.prepay_days_ago, "Prepayment",
                       prepayment_amount,
                       [principal |-> Some(prepayment_amount), interest |-> Some(0),
                        penalty |-> Some(0), gst |-> Some(0)],
                       "Success")>>
    ELSE <<>>

\* loan['net_disbursed_amount'] or loan['loan_amount']
DisbursedAmount(loan) ==
    IF loan.net_disbursed_amount # None /\ loan.net_disbursed_amount[1] # 0
    THEN loan.net_disbursed_amount[1] ELSE loan.loan_amount * 10000

\* a Disbursement dated the day it is generated
DisbursementTxnDatedNow(loan) ==
    MakeTxn(loan, now, "Disbursement", DisbursedAmount(loan), NoComponents, "Success")

\* disbursement_txn
DisbursementTxn(loan) ==
    MakeTxn(loan, loan.disbursement_date[1], "Disbursement", DisbursedAmount(loan),
            NoComponents, "Success")

\* generate_transactions_for_loan with its draws d and the uuid base u
generate_transactions_for_loan(loan, d, u) ==
    IF loan.disbursement_date = None \/ loan.loan_status = "Rejected" THEN <<>>
    ELSE
    LET total_emis == TotalEmis(loan)
        disbursement_txn == DisbursementTxn(loan)
        emis == SelectSeq([month \in 1..total_emis |-> EmiTxn(loan, month, total_emis, d)],
                          LAMBDA t : ~(t.transaction_date > now))
        all == <<disbursement_txn>> \o emis \o Prepayment(loan, d)
    IN  [k \in 1..Len(all) |->
            [all[k] EXCEPT !.transaction_id = generate_transaction_id(u + k)]]

\* generate_transactions: active_loans
ActiveLoans ==
    SelectSeq(loans, LAMBDA l : /\ l.loan_status \in {"Active", "Overdue", "NPA"}
                                /\ l.disbursement_date # None)

\* customers_dict.get(loan['customer_id'], {}) is not empty
InCustomersDict(customer_id) ==
    \E k \in 1..Len(customers) : customers[k].customer_id = customer_id

\* a loop that cuts all_transactions down to n when it breaks
RECURSIVE TransactionsFromCutToTarget(_, _, _, _)
TransactionsFromCutToTarget(k, acc, n, p) ==
    IF k > Len(ActiveLoans) THEN acc
    ELSE IF ~InCustomersDict(ActiveLoans[k].customer_id)
    THEN TransactionsFromCutToTarget(k + 1, acc, n, p)
    ELSE LET grown == acc \o generate_transactions_for_loan(ActiveLoans[k],
                                                             p[k].d, p[k].u)
         IN  IF Len(grown) >= n THEN SubSeq(grown, 1, Max(n, 0))
             ELSE TransactionsFromCutToTarget(k + 1, grown, n, p)

\* the loop of generate_transactions from active loan k on, all_transactions
\* being acc: a loan without customer is passed over, and the loop breaks
\* once n transactions or more are there
RECURSIVE TransactionsFrom(_, _, _, _)
TransactionsFrom(k, acc, n, p) ==
    IF k > Len(ActiveLoans) THEN acc
    ELSE IF ~InCustomersDict(ActiveLoans[k].customer_id)
    THEN TransactionsFrom(k + 1, acc, n, p)
    ELSE LET grown == acc \o generate_transactions_for_loan(ActiveLoans[k],
                                                             p[k].d, p[k].u)
         IN  IF Len(grown) >= n THEN grown
             ELSE TransactionsFrom(k + 1, grown, n, p)

\* customers_df.set_index('customer_id').to_dict('index') raises ValueError
\* when two customers have one id
UniqueCustomerIds ==
    \A j, k \in 1..Len(customers) :
        customers[j].customer_id = customers[k].customer_id => j = k

\* the seeded part of the draws of generate_transactions
SeededTxnPicks(p) == [k \in DOMAIN p |-> p[k].d]

\* STEP 3 of generate_all: generate_batch_transactions, that is
\* generate_transactions with n = config['num_transactions']; the frame is
\* saved to transactions.csv and returned
GenerateTransactions ==
    /\ pc = "ga_step3"
    /\ IF UniqueCustomerIds
       THEN \E p \in [1..Len(ActiveLoans) -> [d : TxnDraws, u : TxnUuidBases]] :
               /\ Replays("transactions", Len(ActiveLoans), SeededTxnPicks(p))
               /\ rng' = Drawn("transactions", Len(ActiveLoans), SeededTxnPicks(p))
               /\ transactions' = TransactionsFrom(1, <<>>, cfg.num_transactions, p)
               /\ csv' = [csv EXCEPT !.transactions = Some(transactions')]
               /\ log' = log \o <<"STEP 3", "Saved transactions">>
               /\ pc' = "ga_step4"
       ELSE /\ log' = log \o <<"STEP 3">>
            /\ pc' = "raised"
            /\ UNCHANGED <<rng, transactions, csv>>
    /\ UNCHANGED <<entry, ctl, cfg, now, custVars, loanVars, alerts, report, first, package>>

----------------------------------------------------------------------------
(* CustomerGenerator called on its own *)

NoCsv == [customers |-> None, loans |-> None, transactions |-> None,
          fraud_alerts |-> None]

InitCust ==
    /\ entry \in {"generate_customers", "generate_batch_customers"}
    /\ cfg \in [num_customers : 0..MaxCustomers, batch_size : 1..MaxBatch,
                num_loans : {0}, loan_batch_size : {1},
                num_transactions : {0}, validate : {FALSE}]
    /\ entry = "generate_customers" => cfg.batch_size = 1
    /\ now = Today
    /\ pc = IF entry = "generate_customers" THEN "gc_loop" ELSE "gbc_loop"
    /\ ctl = [i |-> 0, n |-> IF entry = "generate_customers"
                             THEN cfg.num_customers ELSE 0, b |-> 0]
    /\ custList = <<>>
    /\ custDfs = <<>>
    /\ customers = <<>>
    /\ loanList = <<>>
    /\ loanDfs = <<>>
    /\ loans = <<>>
    /\ alerts = <<>>
    /\ csv = NoCsv
    /\ log = <<>>
    /\ rng = NoReplay
    /\ transactions = <<>>
    /\ report = None
    /\ first = None
    /\ package = None

NextCust ==
    \/ CustomerIter
    \/ CustomerReturn
    \/ BatchCustomersNext
    \/ BatchCustomersReturn

SpecCust == InitCust /\ [][NextCust]_vars

----------------------------------------------------------------------------
(* LoanGenerator called on its own, on customers CustomerGenerator made *)

LoanInputCustomers ==
    {<<MakeCustomer(0, d1), MakeCustomer(1, d2)>> :
        d1 \in {d \in CustomerDraws : d.employment_type = "Salaried" /\ d.age = 22
                                       /\ d.variation = -50},
        d2 \in {d \in CustomerDraws : d.employment_type = "Business Owner" /\ d.age = 40
                                       /\ d.variation = 50}}

InitLoan ==
    /\ entry \in {"generate_loans", "generate_batch_loans"}
    /\ cfg \in [num_customers : {2}, batch_size : {1},
                num_loans : 0..MaxLoans, loan_batch_size : 1..MaxBatch,
                num_transactions : {0}, validate : {FALSE}]
    /\ entry = "generate_loans" => cfg.loan_batch_size = 1
    /\ now = Today
    /\ pc = IF entry = "generate_loans" THEN "gl_loop" ELSE "gbl_loop"
    /\ ctl = [i |-> 0, n |-> IF entry = "generate_loans"
                             THEN cfg.num_loans ELSE 0, b |-> 0]
    /\ custList = <<>>
    /\ custDfs = <<>>
    /\ customers \in LoanInputCustomers
    /\ loanList = <<>>
    /\ loanDfs = <<>>
    /\ loans = <<>>
    /\ alerts = <<>>
    /\ csv = NoCsv
    /\ log = <<>>
    /\ rng = NoReplay
    /\ transactions = <<>>
    /\ report = None
    /\ first = None
    /\ package = None

NextLoan ==
    \/ LoanIter
    \/ LoanIterRaises
    \/ LoanReturn
    \/ BatchLoansNext
    \/ BatchLoansReturn

SpecLoan == InitLoan /\ [][NextLoan]_vars

----------------------------------------------------------------------------
(* FraudGenerator.generate_all_fraud_scenarios called on its own *)

\* Frames the generators made: two active customers, a secured loan of each
\* disbursed five days ago and past due, and a rejected application.
GeneratedFrames ==
    {[customers |-> cs,
      loans     |-> <<MakeLoan(0, cs[1], d1), MakeLoan(1, cs[2], d2),
                      MakeLoan(2, cs[1], d3)>>] :
        cs \in {x \in LoanInputCustomers : x[1].is_active /\ x[2].is_active},
        d1 \in {d \in LoanDraws : d.product = "HL003" /\ d.coll},
        d2 \in {d \in LoanDraws : d.product = "BL002"},
        d3 \in {d \in LoanDraws : d.product = "PL001" /\ ~d.approved
                                   /\ d.uuid_loan \in {1, 1001}}}

\* Frames a caller passes that the generators do not make: a customer of
\* age 40 acquired ten days ago whose credit score is 520 and whose income is
\* 500,000, and a personal loan of theirs above three times that income.
PassedFrames ==
    {LET customer == [MakeCustomer(0, c) EXCEPT !.credit_score = 520,
                                                !.credit_tier = "Deep-Subprime",
                                                !.annual_income = 500]
     IN  [customers |-> <<customer>>,
          loans     |-> <<[ApprovedLoan(0, customer, d)
                              EXCEPT !.loan_amount = customer.annual_income * 3 + 1]>>] :
        c \in {x \in CustomerDraws : x.employment_type = "Business Owner" /\ x.age = 40
                                      /\ x.variation = -50 /\ x.is_active},
        d \in {x \in LoanDraws : x.product = "PL001" /\ x.approved /\ x.bucket \in {0, 2}
                                  /\ ~x.dpd_hi}}

\* Frames in which one customer offered one collateral for two loans, the
\* two collateral ids (eight hexadecimal digits of a uuid) being equal
OneCustomerFrames ==
    {[customers |-> cs,
      loans     |-> <<MakeLoan(0, cs[1], d1), MakeLoan(1, cs[1], d2)>>] :
        cs \in {x \in LoanInputCustomers : x[1].is_active /\ x[2].is_active},
        d1 \in {d \in LoanDraws : d.product = "HL003" /\ d.coll /\ d.uuid_coll = 2001},
        d2 \in {d \in LoanDraws : d.product = "BL002" /\ d.coll /\ d.uuid_coll = 2001}}

InitFraud ==
    /\ entry = "generate_all_fraud_scenarios"
    /\ cfg = [num_customers |-> 0, batch_size |-> 1, num_loans |-> 0,
              loan_batch_size |-> 1, num_transactions |-> 0, validate |-> FALSE]
    /\ now = Today
    /\ pc = "fs_income"
    /\ ctl = [i |-> 0, n |-> 0, b |-> 0]
    /\ custList = <<>>
    /\ custDfs = <<>>
    /\ loanList = <<>>
    /\ loanDfs = <<>>
    /\ \E f \in GeneratedFrames \cup PassedFrames \cup OneCustomerFrames :
          customers = f.customers /\ loans = f.loans
    /\ alerts = <<>>
    /\ csv = NoCsv
    /\ log = <<>>
    /\ rng = NoReplay
    /\ transactions = <<>>
    /\ report = None
    /\ first = None
    /\ package = None

NextFraud ==
    \/ IncomeMismatchScenario
    \/ CollateralScenario
    \/ EarlyDefaultScenario
    \/ SyntheticScenario
    \/ FraudFinish

SpecFraud == InitFraud /\ [][NextFraud]_vars

----------------------------------------------------------------------------
(* TransactionGenerator called on its own, on frames the generators made *)

\* datetime.now() of these calls, in days since 2022-01-01: late enough for a
\* loan to have outlived its tenure
TxnToday == 1600

\* The draws of generate_loans behind the loans handed over: a personal loan
\* applied for 1500, 200, 40 or 10 days before, disbursed 5 or 15 days after
\* that (so 5 days from now at the latest), in DPD bucket 0, 2 or 4; a
\* rejected application; a secured business loan.
TxnLoanDraws ==
    [product : {"PL001"}, amt_hi : {FALSE}, app_days_ago : {1500, 200, 40, 10},
     approved : {TRUE}, delay : {5, 15}, bucket : {0, 2, 4}, dpd_hi : {FALSE},
     coll : {FALSE}, mult_hi : {FALSE}, lgd_hi : {FALSE},
     uuid_coll : {2001}, uuid_loan : {1001}]
    \cup
    [product : {"PL001"}, amt_hi : {FALSE}, app_days_ago : {200},
     approved : {FALSE}, delay : {5}, bucket : {0}, dpd_hi : {FALSE},
     coll : {FALSE}, mult_hi : {FALSE}, lgd_hi : {FALSE},
     uuid_coll : {2001}, uuid_loan : {1001}]
    \cup
    [product : {"BL002"}, amt_hi : {TRUE}, app_days_ago : {200},
     approved : {TRUE}, delay : {15}, bucket : {0, 4}, dpd_hi : {TRUE},
     coll : {TRUE}, mult_hi : {TRUE}, lgd_hi : {TRUE},
     uuid_coll : {2001}, uuid_loan : {1001}]

\* the frames handed over: two active customers and a loan of each
TxnFrames ==
    {[customers |-> cs,
      loans     |-> <<MakeLoan(0, cs[1], d1), MakeLoan(1, cs[2], d2)>>] :
        cs \in {x \in LoanInputCustomers : x[1].is_active /\ x[2].is_active},
        d1 \in {d \in TxnLoanDraws : d.product = "PL001"},
        d2 \in {d \in TxnLoanDraws : d.product = "BL002" \/ d.app_days_ago = 10}}

InitTxn ==
    /\ entry \in {"generate_transactions_for_loan", "generate_transactions"}
    /\ cfg \in [num_customers : {2}, batch_size : {1}, num_loans : {2},
                loan_batch_size : {2}, num_transactions : {0, 1, 4, 1000},
                validate : {FALSE}]
    /\ now = TxnToday
    /\ pc = IF entry = "generate_transactions" THEN "gt_call" ELSE "gtl_call"
    /\ ctl = [i |-> 0, n |-> 0, b |-> 0]
    /\ custList = <<>>
    /\ custDfs = <<>>
    /\ loanList = <<>>
    /\ loanDfs = <<>>
    /\ \E f \in TxnFrames : customers = f.customers /\ loans = f.loans
    /\ alerts = <<>>
    /\ csv = NoCsv
    /\ log = <<>>
    /\ rng = NoReplay
    /\ transactions = <<>>
    /\ report = None
    /\ first = None
    /\ package = None

\* generate_transactions_for_loan is called on loan ctl.i of the frame and
\* returns its list
CallTransactionsForLoan ==
    /\ pc = "gtl_call"
    /\ \E k \in 1..Len(loans), d \in TxnDraws, u \in TxnUuidBases :
          /\ ctl' = [ctl EXCEPT !.i = k]
          /\ transactions' = generate_transactions_for_loan(loans[k], d, u)
    /\ pc' = "done"
    /\ UNCHANGED <<entry, cfg, now, custVars, loanVars, alerts, csv, log, rng,
                   report, first, package>>

\* generate_transactions(loans, customers, n) is called: the frame is saved
\* to transactions.csv and returned
CallGenerateTransactions ==
    /\ pc = "gt_call"
    /\ \E p \in [1..Len(ActiveLoans) -> [d : TxnDraws, u : TxnUuidBases]] :
          transactions' = TransactionsFrom(1, <<>>, cfg.num_transactions, p)
    /\ csv' = [csv EXCEPT !.transactions = Some(transactions')]
    /\ log' = Append(log, "Saved transactions")
    /\ pc' = "done"
    /\ UNCHANGED <<entry, ctl, cfg, now, custVars, loanVars, alerts, rng,
                   report, first, package>>

NextTxn ==
    \/ CallTransactionsForLoan
    \/ CallGenerateTransactions

SpecTxn == InitTxn /\ [][NextTxn]_vars

----------------------------------------------------------------------------
(* CollateralGenerator.generate_collateral_package called on its own *)

\* self.collateral_types.  A type is the tuple of its words: 'x' in
\* collateral_type, a substring test, holds here exactly when the words of x
\* are consecutive words of the type.
CollateralTypes ==
    [HomeLoan |->
        {<<"Residential", "Apartment">>, <<"Independent", "House">>, <<"Villa">>,
         <<"Commercial", "Shop">>, <<"Office", "Space">>, <<"Agricultural", "Land">>,
         <<"Residential", "Plot">>, <<"Commercial", "Plot">>},
     AutoLoan |->
        {<<"New", "Car">>, <<"Used", "Car">>, <<"Commercial", "Vehicle">>,
         <<"Two-wheeler">>, <<"Construction", "Vehicle">>, <<"Fleet", "Vehicle">>},
     BusinessLoan |->
        {<<"Factory", "Building">>, <<"Warehouse">>, <<"Machinery">>, <<"Equipment">>,
         <<"Inventory">>, <<"Fixed", "Deposit">>, <<"Government", "Bonds">>,
         <<"Mutual", "Funds">>, <<"Shares">>},
     EducationLoan |->
        {<<"Fixed", "Deposit">>, <<"Residential", "Property">>, <<"Land">>,
         <<"LIC", "Policy">>, <<"Government", "Securities">>}]

\* self.collateral_types.get(product_type, ['Fixed Deposit'])
TypesOf(product_type) ==
    IF product_type = "Home Loan" THEN CollateralTypes.HomeLoan
    ELSE IF product_type = "Auto Loan" THEN CollateralTypes.AutoLoan
    ELSE IF product_type = "Business Loan" THEN CollateralTypes.BusinessLoan
    ELSE IF product_type = "Education Loan" THEN CollateralTypes.EducationLoan
    ELSE {<<"Fixed", "Deposit">>}

\* x in collateral_type
In(x, collateral_type) ==
    \E k \in 0..(Len(collateral_type) - Len(x)) :
        \A j \in 1..Len(x) : collateral_type[k + j] = x[j]

\* calculate_collateral_value: the ends of the LTV range of a product type,
\* in percent
LtvRange(product_type) ==
    IF product_type = "Home Loan" THEN <<65, 80>>
    ELSE IF product_type = "Auto Loan" THEN <<75, 90>>
    ELSE IF product_type = "Business Loan" THEN <<60, 75>>
    ELSE IF product_type = "Education Loan" THEN <<85, 100>>
    ELSE <<70, 70>>

\* calculate_collateral_value, in thousands: loan_amount / ltv times a factor
\* of 95% to 105%, rounded to the thousand
calculate_collateral_value(loan_amount, product_type, collateral_type, ltv_hi, factor_pct) ==
    LET base_ltv == LtvRange(product_type)[IF ltv_hi THEN 2 ELSE 1]
        ltv == IF In(<<"Land">>, collateral_type) THEN base_ltv - 10
               ELSE IF In(<<"Fixed", "Deposit">>, collateral_type) THEN base_ltv + 15
               ELSE IF In(<<"Shares">>, collateral_type) THEN base_ltv - 15
               ELSE base_ltv
    IN  PyRound(loan_amount * factor_pct, ltv)

\* insurable_types of generate_insurance_details
InsurableTypes ==
    {<<"Residential", "Apartment">>, <<"Independent", "House">>, <<"Villa">>,
     <<"New", "Car">>, <<"Used", "Car">>, <<"Commercial", "Vehicle">>,
     <<"Factory", "Building">>, <<"Warehouse">>, <<"Machinery">>}

\* generate_insurance_details: None for a type that is not insurable
generate_insurance_details(collateral_type, collateral_value) ==
    IF collateral_type \notin InsurableTypes THEN None
    ELSE Some([coverage_amount |-> collateral_value, is_active |-> TRUE])

\* generate_property_details goes past its first test
WantsPropertyDetails(collateral_type) ==
    In(<<"Residential">>, collateral_type) \/ In(<<"Commercial">>, collateral_type)

\* generate_vehicle_details: None without 'Car' or 'Vehicle' in the type
generate_vehicle_details(collateral_type, age) ==
    IF ~In(<<"Car">>, collateral_type) /\ ~In(<<"Vehicle">>, collateral_type) THEN None
    ELSE Some([manufacture_year |-> -age,
               kilometers_driven |-> IF age > 0 THEN 80000 ELSE 5000])

\* generate_business_asset_details: asset_types, None in the else branch
AssetTypes(collateral_type) ==
    IF In(<<"Machinery">>, collateral_type) \/ In(<<"Equipment">>, collateral_type)
    THEN Some({"CNC Machine", "Medical Equipment"})
    ELSE IF In(<<"Warehouse">>, collateral_type) THEN Some({"Godown", "Cold Storage"})
    ELSE IF In(<<"Inventory">>, collateral_type) THEN Some({"Raw Material", "Spare Parts"})
    ELSE None

\* the arguments the package is asked for: the two calls of __main__ (a home
\* loan of 5,000,000 and an auto loan of 800,000) and the other product types
PackageCalls ==
    [product_type : {"Home Loan", "Auto Loan", "Business Loan", "Education Loan",
                     "Personal Loan"},
     loan_amount : {800, 5000}]

InitColl ==
    /\ entry = "generate_collateral_package"
    /\ cfg = [num_customers |-> 0, batch_size |-> 1, num_loans |-> 0,
              loan_batch_size |-> 1, num_transactions |-> 0, validate |-> FALSE]
    /\ now = Today
    /\ pc = "cp_call"
    /\ ctl = [i |-> 0, n |-> 0, b |-> 0]
    /\ custList = <<>>
    /\ custDfs = <<>>
    /\ customers = <<>>
    /\ loanList = <<>>
    /\ loanDfs = <<>>
    /\ loans = <<>>
    /\ alerts = <<>>
    /\ csv = NoCsv
    /\ log = <<>>
    /\ rng = NoReplay
    /\ transactions = <<>>
    /\ report = None
    /\ first = None
    /\ \E call \in PackageCalls :
          package = Some([product_type |-> call.product_type,
                          loan_amount |-> call.loan_amount,
                          application_date |-> now,
                          collateral_type |-> <<>>, collateral_id |-> 0,
                          collateral_value |-> 0, loan_to_value_ratio |-> 0,
                          valuation_date |-> 0,
                          insurance_details |-> None, property_details |-> None,
                          vehicle_details |-> None, business_asset_details |-> None,
                          ownership_type |-> ""])

\* what is left alone by a step of generate_collateral_package
PackageFrame ==
    UNCHANGED <<entry, ctl, cfg, now, custVars, loanVars, alerts, csv, log, rng,
                transactions, report, first>>

\* generate_collateral_package up to the LTV ratio: the type is chosen, the id
\* made, the value and the valuation date computed
PackageValue ==
    /\ pc = "cp_call"
    /\ \E collateral_type \in TypesOf(package[1].product_type),
          uuid \in CollateralUuids, ltv_hi \in BOOLEAN, factor_pct \in {95, 105},
          valued_days_before \in {7, 15} :
          LET collateral_value ==
                  calculate_collateral_value(package[1].loan_amount,
                      package[1].product_type, collateral_type, ltv_hi, factor_pct)
          IN  package' = Some([package[1] EXCEPT
                  !.collateral_type = collateral_type,
                  !.collateral_id = uuid,
                  !.collateral_value = collateral_value,
                  !.valuation_date = package[1].application_date - valued_days_before,
                  !.loan_to_value_ratio =
                      PyRound(package[1].loan_amount * 10000, collateral_value)])
    /\ pc' = "cp_insurance"
    /\ PackageFrame

\* insurance_details = self.generate_insurance_details(...)
PackageInsurance ==
    /\ pc = "cp_insurance"
    /\ package' = Some([package[1] EXCEPT !.insurance_details =
                      generate_insurance_details(package[1].collateral_type,
                                                 package[1].collateral_value)])
    /\ pc' = "cp_property"
    /\ PackageFrame

\* property_details = self.generate_property_details(...): None without
\* 'Residential' or 'Commercial' in the type; with one of them the call gets
\* as far as random.choice([...], weights=[...]), which raises TypeError
\* (random.choice takes no weights)
PackageProperty ==
    /\ pc = "cp_property"
    /\ IF WantsPropertyDetails(package[1].collateral_type)
       THEN pc' = "raised"
       ELSE pc' = "cp_vehicle"
    /\ UNCHANGED package
    /\ PackageFrame

\* vehicle_details = self.generate_vehicle_details(collateral_type)
PackageVehicle ==
    /\ pc = "cp_vehicle"
    /\ \E age \in {0, 5} :
          package' = Some([package[1] EXCEPT !.vehicle_details =
                          generate_vehicle_details(package[1].collateral_type, age)])
    /\ pc' = "cp_business"
    /\ PackageFrame

\* business_asset_details = self.generate_business_asset_details(...)
PackageBusinessAsset ==
    /\ pc = "cp_business"
    /\ LET asset_types == AssetTypes(package[1].collateral_type)
       IN  IF asset_types = None
           THEN package' = Some([package[1] EXCEPT !.business_asset_details = None])
           ELSE \E asset_type \in asset_types[1] :
                   package' = Some([package[1] EXCEPT !.business_asset_details =
                                       Some([asset_type |-> asset_type])])
    /\ pc' = "cp_return"
    /\ PackageFrame

\* the ownership is chosen, the dict built and returned
PackageReturn ==
    /\ pc = "cp_return"
    /\ \E ownership \in {"Self-owned", "Partnership"} :
          package' = Some([package[1] EXCEPT !.ownership_type =
                          IF In(<<"Property">>, package[1].collateral_type)
                          THEN ownership ELSE "Self-owned"])
    /\ pc' = "done"
    /\ PackageFrame

NextColl ==
    \/ PackageValue
    \/ PackageInsurance
    \/ PackageProperty
    \/ PackageVehicle
    \/ PackageBusinessAsset
    \/ PackageReturn

SpecColl == InitColl /\ [][NextColl]_vars

----------------------------------------------------------------------------
(* NBFCDataGenerator.generate_all *)

\* STEP 1 of generate_all: generate_customers(n = config['num_customers'])
\* is entered
GenerateAllCustomers ==
    /\ pc = "ga_step1"
    /\ log' = Append(log, "STEP 1")
    /\ CallCustomers(cfg.num_customers)
    /\ pc' = "gc_loop"
    /\ UNCHANGED <<entry, cfg, now, custDfs, customers, loanVars, alerts, csv, rng, pipeVars>>

\* STEP 2 of generate_all: generate_batch_loans(customers,
\* total = config['num_loans']) is entered
GenerateAllLoans ==
    /\ pc = "ga_step2"
    /\ log' = Append(log, "STEP 2")
    /\ loanDfs' = <<>>
    /\ ctl' = [ctl EXCEPT !.b = 0]
    /\ pc' = "gbl_loop"
    /\ UNCHANGED <<entry, cfg, now, custVars, loanList, loans, alerts, csv, rng, pipeVars>>

\* STEP 4 of generate_all: generate_all_fraud_scenarios(loans, customers) is
\* entered
GenerateAllFraud ==
    /\ pc = "ga_step4"
    /\ log' = Append(log, "STEP 4")
    /\ alerts' = <<>>
    /\ pc' = "fs_income"
    /\ UNCHANGED <<entry, ctl, cfg, now, custVars, loanVars, csv, rng, pipeVars>>

\* the rows of a frame that satisfy a test
Count(df, Test(_)) == Len(SelectSeq(df, Test))

\* the entries of a list whose condition holds, in the order of the list
Raised(findings) ==
    LET kept == SelectSeq(findings, LAMBDA f : f[1])
    IN  [k \in 1..Len(kept) |-> kept[k][2]]

\* pass_rate = 1 - (error_count / max(total_checks, 1)), as the fraction
\* <<numerator, denominator>>
PassRate(total_checks, error_count) ==
    <<Max(total_checks, 1) - error_count, Max(total_checks, 1)>>

\* the results dict of a validator that ran its checks
Results(table, df, checks, errors, warnings) ==
    [table         |-> table,
     total_records |-> Len(df),
     checks        |-> checks,
     warnings      |-> warnings,
     errors        |-> errors,
     pass_rate     |-> PassRate(Cardinality(checks), Len(errors))]

\* df['customer_id'], df['loan_id']: KeyError on a frame made of no row,
\* which has no column
RaisesKeyError(df) == df = <<>>

\* missing[field] of df.isnull().sum().to_dict()
MissingValues(df, field) == Count(df, LAMBDA c : c[field] = None)

\* DataValidator.validate_customers on a frame with rows.  customer_id is
\* null in no frame followed, and every email has its '@'.
validate_customers(df) ==
    LET duplicate_ids ==
            \E j, k \in 1..Len(df) :
                j # k /\ df[j].customer_id = df[k].customer_id
        invalid_credit == Count(df, LAMBDA c : c.credit_score < 300 \/ c.credit_score > 900)
        invalid_age == Count(df, LAMBDA c : c.age < 18 \/ c.age > 100)
        negative_income == Count(df, LAMBDA c : c.annual_income < 0)
    IN  Results("dim_customer", df,
                {"missing_values", "duplicate_customer_ids", "invalid_credit_scores",
                 "invalid_age", "negative_income", "invalid_email"},
                Raised(<< <<MissingValues(df, "first_name") > 0, "Missing values in first_name">>,
                          <<MissingValues(df, "last_name") > 0, "Missing values in last_name">>,
                          <<MissingValues(df, "date_of_birth") > 0,
                            "Missing values in date_of_birth">>,
                          <<duplicate_ids, "Duplicate customer IDs">>,
                          <<invalid_credit > 0, "Invalid credit scores">>,
                          <<invalid_age > 0, "Invalid age">>,
                          <<negative_income > 0, "Negative income">> >>),
                <<>>)

\* DataValidator.validate_loans.  Rates are in hundredths of a percent.
validate_loans(df) ==
    LET approved_loans == SelectSeq(df, LAMBDA l : l.disbursement_date # None)
        zero_loan == Count(df, LAMBDA l : l.loan_amount <= 0)
        invalid_rate == Count(approved_loans, LAMBDA l : \/ l.interest_rate[1] < 500
                                                          \/ l.interest_rate[1] > 3000)
        invalid_tenure == Count(approved_loans, LAMBDA l : \/ l.tenure_months[1] < 1
                                                            \/ l.tenure_months[1] > 360)
        dpd_mismatch == Count(df, LAMBDA l : l.days_past_due = 0 /\ l.dpd_bucket # "0")
        npa_mismatch == Count(df, LAMBDA l : l.days_past_due > 90 /\ ~l.npa_flag)
    IN  Results("fact_loan", df,
                {"missing_customer_id", "zero_loan_amount", "dpd_bucket_mismatch",
                 "npa_flag_mismatch"}
                    \cup (IF Len(approved_loans) > 0
                          THEN {"invalid_interest_rate", "invalid_tenure"} ELSE {}),
                Raised(<< <<zero_loan > 0, "Zero or negative loan amount">>,
                          <<invalid_rate > 0, "Invalid interest rate">>,
                          <<invalid_tenure > 0, "Invalid tenure">> >>),
                Raised(<< <<dpd_mismatch > 0, "DPD bucket mismatch">>,
                          <<npa_mismatch > 0, "NPA flag mismatch">> >>))

\* DataValidator.validate_transactions on a frame with rows
validate_transactions(df) ==
    LET zero_amount == Count(df, LAMBDA t : t.amount <= 0)
        invalid_type ==
            Count(df, LAMBDA t : t.transaction_type \notin
                      {"EMI", "Prepayment", "Foreclosure", "Disbursement", "Penalty",
                       "Processing Fee"})
        invalid_status ==
            Count(df, LAMBDA t : t.transaction_status \notin {"Success", "Failed", "Pending"})
    IN  Results("fact_transaction", df,
                {"missing_loan_id", "zero_amount", "invalid_transaction_type",
                 "invalid_status"},
                Raised(<< <<zero_amount > 0, "Zero or negative amount">>,
                          <<invalid_type > 0, "Invalid transaction type">>,
                          <<invalid_status > 0, "Invalid transaction status">> >>),
                <<>>)

\* risk_mapping of validate_fraud_alerts
RiskMapping ==
    [Critical |-> <<80, 100>>, High |-> <<60, 79>>, Medium |-> <<40, 59>>,
     Low |-> <<1, 39>>]

\* DataValidator.validate_fraud_alerts: without alerts it returns early, its
\* pass_rate still the 0 it was initialised with
validate_fraud_alerts(df) ==
    IF Len(df) = 0
    THEN [table |-> "fact_fraud_alert", total_records |-> 0, checks |-> {},
          warnings |-> <<"No fraud alerts generated">>, errors |-> <<>>,
          pass_rate |-> <<0, 1>>]
    ELSE
    LET invalid_score == Count(df, LAMBDA a : a.risk_score < 1 \/ a.risk_score > 100)
        inconsistent ==
            Count(df, LAMBDA a : /\ a.risk_level \in DOMAIN RiskMapping
                                 /\ ~(/\ RiskMapping[a.risk_level][1] <= a.risk_score
                                      /\ a.risk_score <= RiskMapping[a.risk_level][2]))
        invalid_status ==
            Count(df, LAMBDA a : a.investigation_status \notin
                      {"New", "In Progress", "Confirmed", "False Positive"})
    IN  Results("fact_fraud_alert", df,
                {"invalid_risk_score", "inconsistent_risk_level", "invalid_status"},
                Raised(<< <<invalid_score > 0, "Invalid risk score">>,
                          <<invalid_status > 0, "Invalid investigation status">> >>),
                Raised(<< <<inconsistent > 0, "Inconsistent risk level">> >>))

\* float(np.mean(scores)) over the four pass rates, as a fraction
MeanOf(c, l, t, f) ==
    <<c[1] * l[2] * t[2] * f[2] + l[1] * c[2] * t[2] * f[2]
          + t[1] * c[2] * l[2] * f[2] + f[1] * c[2] * l[2] * t[2],
      4 * c[2] * l[2] * t[2] * f[2]>>

\* generate_quality_report raises: one of its validators does
QualityReportRaises ==
    RaisesKeyError(customers) \/ RaisesKeyError(transactions)

\* DataValidator.generate_quality_report: the summary, the results of the
\* four validators and their mean
QualityReport ==
    LET quality_checks ==
            [customers    |-> validate_customers(customers),
             loans        |-> validate_loans(loans),
             transactions |-> validate_transactions(transactions),
             fraud_alerts |-> validate_fraud_alerts(alerts)]
    IN  [customers      |-> Len(customers),
         loans          |-> Len(loans),
         transactions   |-> Len(transactions),
         fraud_alerts   |-> Len(alerts),
         fraud_loans    |-> Len(SelectSeq(loans, LAMBDA l : l.fraud_flag)),
         quality_checks |-> quality_checks,
         overall_quality_score |->
             MeanOf(quality_checks.customers.pass_rate, quality_checks.loans.pass_rate,
                    quality_checks.transactions.pass_rate,
                    quality_checks.fraud_alerts.pass_rate)]

\* STEP 5 of generate_all and its return: with validate the quality report is
\* made and saved unless a validator raises (validate_transactions does on a
\* frame without rows), without it quality_report stays None
GenerateAllValidate ==
    /\ pc = "ga_step5"
    /\ IF cfg.validate /\ QualityReportRaises
       THEN /\ log' = Append(log, "STEP 5")
            /\ pc' = "raised"
            /\ UNCHANGED report
       ELSE /\ report' = IF cfg.validate THEN Some(QualityReport) ELSE None
            /\ log' = log \o <<"STEP 5">>
                          \o (IF cfg.validate THEN <<"Quality report saved">> ELSE <<>>)
                          \o <<"GENERATION COMPLETE">>
            /\ pc' = "ga_done"
    /\ UNCHANGED <<entry, ctl, cfg, now, custVars, loanVars, alerts, csv, rng,
                   transactions, first, package>>

\* what generate_all returns: the four datasets
Returned ==
    [customers |-> customers, loans |-> loans, transactions |-> transactions,
     fraud_alerts |-> alerts]

\* The caller makes a second NBFCDataGenerator with the seed and the config
\* of the first and calls generate_all again, the same day.  The files of the
\* first run stay until they are written again.
SecondRun ==
    /\ pc = "ga_done"
    /\ rng.runs = 2
    /\ rng.run = 1
    /\ first' = Some(Returned)
    /\ rng' = [rng EXCEPT !.run = 2, !.pos = 0]
    /\ pc' = "ga_step1"
    /\ ctl' = [i |-> 0, n |-> 0, b |-> 0]
    /\ custList' = <<>>
    /\ custDfs' = <<>>
    /\ customers' = <<>>
    /\ loanList' = <<>>
    /\ loanDfs' = <<>>
    /\ loans' = <<>>
    /\ alerts' = <<>>
    /\ log' = <<>>
    /\ transactions' = <<>>
    /\ report' = None
    /\ UNCHANGED <<entry, cfg, now, csv, package>>

\* The configurations followed.  loan_batch_size is the batch_size of
\* generate_batch_loans, which generate_all leaves at its default of 10000:
\* here it is 1 or 2 for the totals to span more than one batch.
Configs ==
    [num_customers : {0, 1, 2}, batch_size : {1}, num_loans : {0, 1, 2},
     loan_batch_size : {1}, num_transactions : {1000}, validate : {TRUE}]
    \cup
    [num_customers : {2}, batch_size : {1}, num_loans : {2},
     loan_batch_size : {2}, num_transactions : {2}, validate : {FALSE}]

InitAll(runs, configs) ==
    /\ entry = "generate_all"
    /\ cfg \in configs
    /\ now = Today
    /\ pc = "ga_step1"
    /\ ctl = [i |-> 0, n |-> 0, b |-> 0]
    /\ custList = <<>>
    /\ custDfs = <<>>
    /\ customers = <<>>
    /\ loanList = <<>>
    /\ loanDfs = <<>>
    /\ loans = <<>>
    /\ alerts = <<>>
    /\ csv = NoCsv
    /\ log = <<>>
    /\ rng = [NoReplay EXCEPT !.runs = runs]
    /\ transactions = <<>>
    /\ report = None
    /\ first = None
    /\ package = None

Init == InitAll(1, Configs)

Next ==
    \/ GenerateAllCustomers
    \/ CustomerIter
    \/ CustomerReturn
    \/ GenerateAllLoans
    \/ BatchLoansNext
    \/ LoanIter
    \/ LoanIterRaises
    \/ LoanReturn
    \/ BatchLoansReturn
    \/ GenerateTransactions
    \/ GenerateAllFraud
    \/ IncomeMismatchScenario
    \/ CollateralScenario
    \/ EarlyDefaultScenario
    \/ SyntheticScenario
    \/ FraudFinish
    \/ GenerateAllValidate

Spec == Init /\ [][Next]_vars

----------------------------------------------------------------------------
(* generate_all run twice with one seed and one config *)

ReproConfigs ==
    {c \in Configs : c.num_customers = 1 /\ c.num_loans = 1}

InitRepro == InitAll(2, ReproConfigs)

NextRepro ==
    \/ Next
    \/ SecondRun

SpecRepro == InitRepro /\ [][NextRepro]_vars

----------------------------------------------------------------------------
(* Properties of CustomerGenerator *)

\* the rows of a frame
Rows(df) == {df[k] : k \in 1..Len(df)}

\* C8: in the customer population one generation call returns
\* (generate_customers or generate_batch_customers), no two customers have
\* the same customer_id
C8_UniqueCustomerIds ==
    (pc = "done" /\ entry \in {"generate_customers", "generate_batch_customers"}) =>
        \A j, k \in 1..Len(customers) :
            j # k => customers[j].customer_id # customers[k].customer_id

----------------------------------------------------------------------------
(* Properties of LoanGenerator *)

\* every loan dict generate_loans has built so far, and every row returned
GeneratedLoans == Rows(loanList) \cup Rows(loans)

DisbursementFields(l) ==
    <<l.first_emi_date, l.sanctioned_amount, l.interest_rate, l.tenure_months,
      l.emi_amount, l.processing_fee, l.gst_on_fee, l.net_disbursed_amount,
      l.collateral_id, l.collateral_value, l.loan_to_value_ratio,
      l.probability_of_default, l.loss_given_default, l.exposure_at_default,
      l.expected_loss, l.npa_date>>

\* C6: a loan produced by generate_loans is 'Rejected' exactly when its
\* disbursement_date is null, and a rejected loan has every
\* disbursement-dependent field null, days_past_due 0, npa_flag and
\* fraud_flag false
C6_RejectedLoansAreNull ==
    \A l \in GeneratedLoans :
        /\ (l.loan_status = "Rejected") <=> (l.disbursement_date = None)
        /\ l.loan_status = "Rejected" =>
              /\ \A k \in 1..Len(DisbursementFields(l)) : DisbursementFields(l)[k] = None
              /\ l.days_past_due = 0
              /\ l.npa_flag = FALSE
              /\ l.fraud_flag = FALSE

\* generate_loans has returned a rejected and a disbursed loan
C6_Witness ==
    /\ pc = "done"
    /\ entry = "generate_loans"
    /\ \E l \in Rows(loans) : l.loan_status = "Rejected"
    /\ \E l \in Rows(loans) : l.disbursement_date # None /\ l.collateral_id # None

\* C7: for every generated loan dpd_bucket, npa_flag and loan_status agree
\* with days_past_due: the bucket is the one holding the days (90 in
\* '61-90', 91 in '90+'), npa_flag is days_past_due > 90, and a disbursed
\* loan is NPA iff npa_flag, Overdue iff 31..90 days, Active iff <= 30 days
C7_DpdConsistent ==
    \A l \in GeneratedLoans :
        LET days == l.days_past_due IN
        /\ (l.dpd_bucket = "0") <=> (days = 0)
        /\ (l.dpd_bucket = "1-30") <=> (days \in 1..30)
        /\ (l.dpd_bucket = "31-60") <=> (days \in 31..60)
        /\ (l.dpd_bucket = "61-90") <=> (days \in 61..90)
        /\ (l.dpd_bucket = "90+") <=> (days > 90)
        /\ l.npa_flag <=> (days > 90)
        /\ l.disbursement_date # None =>
              /\ (l.loan_status = "NPA") <=> l.npa_flag
              /\ (l.loan_status = "Overdue") <=> (days \in 31..90)
              /\ (l.loan_status = "Active") <=> (days <= 30)

\* loans at both sides of the NPA boundary have been returned
C7_Witness ==
    /\ pc = "done"
    /\ \E l \in Rows(loans) : l.days_past_due = 90 /\ l.loan_status = "Overdue"
    /\ \E l \in Rows(loans) : l.days_past_due = 91 /\ l.loan_status = "NPA"

----------------------------------------------------------------------------
(* Properties of FraudGenerator *)

\* the band that holds a risk score: Critical 80..100, High 60..79,
\* Medium 40..59, Low 1..39
BandOfScore(risk_score) ==
    IF risk_score \in 80..100 THEN "Critical"
    ELSE IF risk_score \in 60..79 THEN "High"
    ELSE IF risk_score \in 40..59 THEN "Medium"
    ELSE IF risk_score \in 1..39 THEN "Low"
    ELSE "none"

\* generate_all_fraud_scenarios has returned df
FraudReturned == csv.fraud_alerts # None

\* the alerts that reference the loan id
AlertsOf(loan_id) == {a \in Rows(alerts) : a.loan_id = Some(loan_id)}

\* C2: every alert any of the four scenarios produces has the risk_level of
\* the band that holds its own risk_score
C2_RiskLevelMatchesBand ==
    \A a \in Rows(alerts) : a.risk_level = BandOfScore(a.risk_score)

\* C3: every alert generate_all_fraud_scenarios returns has its risk_score
\* within 1..100
C3_RiskScoreInRange ==
    FraudReturned => \A a \in Rows(alerts) : a.risk_score \in 1..100

\* C4: once generate_all_fraud_scenarios has returned, every loan whose
\* loan_id a returned alert references has fraud_flag true, and its
\* fraud_type and fraud_detection_date are the alert_type and detection_date
\* of one alert that references it
C4_BackfillOnReferencedLoans ==
    FraudReturned =>
        \A l \in Rows(loans) :
            AlertsOf(l.loan_id) # {} =>
                /\ l.fraud_flag = TRUE
                /\ \E a \in AlertsOf(l.loan_id) :
                      /\ l.fraud_type = Some(a.alert_type)
                      /\ l.fraud_detection_date = Some(a.detection_date)

\* the back-fill has run on a loan that two alerts of different types and
\* detection dates reference
C4_Witness ==
    /\ FraudReturned
    /\ \E l \in Rows(loans) :
          /\ l.fraud_flag = TRUE
          /\ \E a, b \in AlertsOf(l.loan_id) :
                a.alert_type # b.alert_type /\ a.detection_date # b.detection_date

\* a loan with its three fraud fields set aside
WithoutFraudFields(l) ==
    [l EXCEPT !.fraud_flag = FALSE, !.fraud_type = None, !.fraud_detection_date = None]

\* the positions of generate_all_fraud_scenarios
FraudStages == {"fs_income", "fs_collateral", "fs_early", "fs_synthetic", "fs_finish"}

\* what a step of generate_all_fraud_scenarios does to the frames it was given
FraudStepFrame ==
    pc \in FraudStages =>
        /\ customers' = customers
        /\ Len(loans') = Len(loans)
        /\ \A k \in 1..Len(loans) :
              WithoutFraudFields(loans'[k]) = WithoutFraudFields(loans[k])
        /\ \/ pc' \in FraudStages
           \/ \A k \in 1..Len(loans') :
                 \/ \E a \in Rows(alerts') : a.loan_id = Some(loans'[k].loan_id)
                 \/ /\ loans'[k].fraud_flag = FALSE
                    /\ loans'[k].fraud_type = None
                    /\ loans'[k].fraud_detection_date = None

\* C5: a step of generate_all_fraud_scenarios adds or removes no loan,
\* changes no loan field but fraud_flag, fraud_type and
\* fraud_detection_date, and leaves the customers as they are; and once it
\* has returned, every loan no returned alert references has fraud_flag
\* false and fraud_type, fraud_detection_date null
C5_FraudStepFrame == [][FraudStepFrame]_vars

\* the back-fill has flagged one loan and left another, of the same
\* customer, alone
C5_Witness ==
    /\ FraudReturned
    /\ \E l, m \in Rows(loans) :
          /\ l.fraud_flag = TRUE
          /\ m.fraud_flag = FALSE
          /\ m.customer_id = l.customer_id
          /\ AlertsOf(m.loan_id) = {}

----------------------------------------------------------------------------
(* Properties of NBFCDataGenerator.generate_all *)

\* C9: in the datasets generate_all returns, every loan's customer_id is the
\* id of a generated customer that is active; every transaction's loan_id is
\* the id of a disbursed loan, not rejected, of the transaction's customer;
\* and every alert with a loan_id names a loan of the alert's customer
C9_ReferencesValid ==
    (entry = "generate_all" /\ pc = "ga_done") =>
        /\ \A l \in Rows(loans) :
              \E c \in Rows(customers) :
                  c.customer_id = l.customer_id /\ c.is_active = TRUE
        /\ \A t \in Rows(transactions) :
              \E l \in Rows(loans) :
                  /\ l.loan_id = t.loan_id
                  /\ l.disbursement_date # None
                  /\ l.loan_status # "Rejected"
                  /\ l.customer_id = t.customer_id
        /\ \A a \in Rows(alerts) :
              a.loan_id # None =>
                  \E l \in Rows(loans) :
                      l.loan_id = a.loan_id[1] /\ l.customer_id = a.customer_id

\* generate_all has returned customers of whom one is inactive, a rejected
\* loan, and a transaction and an alert of one disbursed loan
C9_Witness ==
    /\ entry = "generate_all"
    /\ pc = "ga_done"
    /\ \E c \in Rows(customers) : ~c.is_active
    /\ \E l \in Rows(loans) : l.loan_status = "Rejected"
    /\ \E t \in Rows(transactions), a \in Rows(alerts) : a.loan_id = Some(t.loan_id)

\* the lines a complete run of generate_all logs under the configuration
ExpectedLog ==
    <<"STEP 1", "Saved customers", "STEP 2">>
    \o [b \in 1..Batches(cfg.num_loans, cfg.loan_batch_size) |-> "Saved loans"]
    \o <<"STEP 3", "Saved transactions", "STEP 4", "Saved fraud alerts">>
    \o (IF alerts # <<>> THEN <<"Updated fraud flags">> ELSE <<>>)
    \o <<"STEP 5">>
    \o (IF cfg.validate THEN <<"Quality report saved">> ELSE <<>>)
    \o <<"GENERATION COMPLETE">>

\* the line is in the log
Logged(line) == \E k \in 1..Len(log) : log[k] = line

\* C10: generate_all runs customers, loans, transactions, fraud alerts and
\* validation in this order, a stage starting once the one before has
\* returned and on what the stages before it returned; each generation stage
\* runs once in a call; validation comes last and only if validate is true
C10_StageOrder ==
    entry = "generate_all" =>
        /\ Len(log) <= Len(ExpectedLog)
        /\ \A k \in 1..Len(log) : log[k] = ExpectedLog[k]
        /\ pc = "ga_done" => log = ExpectedLog
        /\ Logged("STEP 2") => csv.customers = Some(customers)
        /\ Logged("STEP 3") =>
              /\ Len(loans) = cfg.num_loans
              /\ \A k \in 1..Len(loans) :
                    /\ WithoutFraudFields(loans[k]) = WithoutFraudFields(Concat(loanDfs)[k])
                    /\ \E c \in Rows(customers) : c.customer_id = loans[k].customer_id
        /\ Logged("STEP 4") =>
              /\ csv.transactions = Some(transactions)
              /\ \A t \in Rows(transactions) : \E l \in Rows(loans) : l.loan_id = t.loan_id
        /\ report # None =>
              /\ cfg.validate
              /\ Logged("Saved fraud alerts")
              /\ report[1].customers = Len(customers)
              /\ report[1].loans = Len(loans)
              /\ report[1].transactions = Len(transactions)
              /\ report[1].fraud_alerts = Len(alerts)
        /\ pc = "ga_done" => (report # None <=> cfg.validate)

\* a validated run over two batches of loans has completed with alerts
C10_Witness ==
    /\ entry = "generate_all"
    /\ pc = "ga_done"
    /\ report # None
    /\ Len(loanDfs) = 2
    /\ transactions # <<>>
    /\ alerts # <<>>

\* C1: two runs of generate_all with one seed and one configuration return
\* the same customers, loans, transactions and fraud alerts, field by field,
\* identifiers and dates included
C1_Reproducible ==
    (entry = "generate_all" /\ pc = "ga_done" /\ rng.run = 2) =>
        first = Some(Returned)


----------------------------------------------------------------------------
(* Properties of TransactionGenerator.generate_transactions_for_loan *)

\* generate_transactions_for_loan has returned, for loan ctl.i of the frame
TxnCallReturned == entry = "generate_transactions_for_loan" /\ pc = "done"

CalledLoan == loans[ctl.i]

\* the transactions of a type, in the order of the returned list
OfType(type) == SelectSeq(transactions, LAMBDA t : t.transaction_type = type)

\* the days between two dates
DaysBetween(a, b) == IF a <= b THEN b - a ELSE a - b

\* C11: generate_transactions_for_loan returns an empty list for a loan
\* without disbursement date or with status 'Rejected'; for any other loan the
\* list starts with a Disbursement dated at the loan's disbursement date, the
\* only Disbursement in it
C11_DisbursementFirst ==
    TxnCallReturned =>
        IF CalledLoan.disbursement_date = None \/ CalledLoan.loan_status = "Rejected"
        THEN transactions = <<>>
        ELSE /\ Len(transactions) >= 1
             /\ transactions[1].transaction_type = "Disbursement"
             /\ transactions[1].transaction_date = CalledLoan.disbursement_date[1]
             /\ \A k \in 2..Len(transactions) :
                    transactions[k].transaction_type # "Disbursement"

\* a disbursed loan came back with its Disbursement followed by a
\* transaction dated before the disbursement day is over
C11_Witness ==
    /\ TxnCallReturned
    /\ CalledLoan.disbursement_date # None
    /\ Len(transactions) >= 2
    /\ \E k \in 2..Len(transactions) :
          transactions[k].transaction_date <= CalledLoan.disbursement_date[1]

\* C12: the EMIs of the returned list are in strictly increasing date order,
\* the k-th dated first_emi_date + 30 * (k - 1) days, and none is dated after
\* the time of generation
C12_EmisInMonthOrder ==
    TxnCallReturned =>
        LET emis == OfType("EMI")
        IN  \A k \in 1..Len(emis) :
                /\ emis[k].transaction_date
                       = CalledLoan.first_emi_date[1] + 30 * (k - 1)
                /\ emis[k].transaction_date <= now
                /\ k > 1 => emis[k - 1].transaction_date < emis[k].transaction_date

\* a loan came back with several EMIs
C12_Witness ==
    /\ TxnCallReturned
    /\ Len(OfType("EMI")) >= 6

\* the sum of the four components of a transaction, in paise
ComponentSum(t) ==
    t.principal_component[1] + t.interest_component[1]
        + t.penalty_component[1] + t.gst_component[1]

\* C13: on every EMI of every loan, delinquent or not, principal + interest
\* + penalty + gst is the amount, up to the rounding of each component to the
\* paisa (half a paisa each)
C13_ComponentsSumToAmount ==
    TxnCallReturned =>
        \A t \in Rows(OfType("EMI")) : DaysBetween(ComponentSum(t), t.amount) <= 2

\* C18: the number of EMIs of a disbursed loan is min(floor(days between
\* disbursement and generation / 30), tenure_months): none when fewer than
\* 30 days have gone by, never more than tenure_months
C18_EmiCount ==
    TxnCallReturned /\ CalledLoan.disbursement_date # None =>
        LET days == DaysBetween(CalledLoan.disbursement_date[1], now)
            tenure_months == CalledLoan.tenure_months[1]
            emis == Len(OfType("EMI"))
        IN  /\ emis = Min(days \div 30, tenure_months)
            /\ days < 30 => emis = 0
            /\ emis <= tenure_months

\* a loan that outlived its tenure came back with one EMI per month of it
C18_Witness ==
    /\ TxnCallReturned
    /\ CalledLoan.disbursement_date # None
    /\ (now - CalledLoan.disbursement_date[1]) \div 30 > CalledLoan.tenure_months[1]
    /\ Len(OfType("EMI")) = CalledLoan.tenure_months[1]

\* C19: a returned list holds at most one Prepayment; there is one only when
\* the loan is 'Active'; it comes after every EMI of the list; its amount is
\* its principal_component and lies between 20% and 50% of current_balance
C19_PrepaymentLast ==
    TxnCallReturned =>
        /\ Len(OfType("Prepayment")) <= 1
        /\ \A k \in 1..Len(transactions) :
              transactions[k].transaction_type = "Prepayment" =>
                  /\ CalledLoan.loan_status = "Active"
                  /\ \A j \in 1..Len(transactions) :
                         transactions[j].transaction_type = "EMI" => j < k
                  /\ transactions[k].principal_component
                         = Some(transactions[k].amount)
                  /\ 20 * CalledLoan.current_balance <= transactions[k].amount
                  /\ transactions[k].amount <= 50 * CalledLoan.current_balance

\* an Active loan with a balance came back with EMIs and then a Prepayment
C19_Witness ==
    /\ TxnCallReturned
    /\ Len(OfType("Prepayment")) = 1
    /\ Len(OfType("EMI")) >= 1
    /\ CalledLoan.current_balance > 0


----------------------------------------------------------------------------
(* Properties of DataValidator *)

\* generate_all has reached its validation step
Validating == entry = "generate_all" /\ cfg.validate /\ Logged("STEP 5")

\* C14: validation never blocks generation: whatever the generators made,
\* empty transactions or empty alerts included, generate_all with validate
\* set goes through its validation step without raising and returns with a
\* quality report
C14_ValidationNeverBlocks ==
    Validating => pc # "raised"

\* the results of the four validators in a quality report
ValidatorResults(r) ==
    {r.quality_checks.customers, r.quality_checks.loans,
     r.quality_checks.transactions, r.quality_checks.fraud_alerts}

\* C15: every validator returns pass_rate = 1 - (number of errors) / (number
\* of checks), the quotient over at least one check, whatever the warnings
C15_PassRateFormula ==
    report # None =>
        \A r \in ValidatorResults(report[1]) :
            LET total_checks == Max(Cardinality(r.checks), 1)
            IN  r.pass_rate[1] * total_checks
                    = r.pass_rate[2] * (total_checks - Len(r.errors))


----------------------------------------------------------------------------
(* Properties of LoanGenerator: the amount *)

\* the customer a loan of generate_loans was drawn for
CustomerOf(l) == CHOOSE c \in Rows(customers) : c.customer_id = l.customer_id

\* C17: every loan of generate_loans, approved or rejected, has
\* product.min_amount <= loan_amount <= min(product.max_amount,
\* annual_income * incomeMultiple), up to the rounding to the nearest 1,000
\* (amounts are in thousands), incomeMultiple being 5 above a credit score
\* of 750, 4 above 650 and 3 otherwise
C17_LoanAmountInRange ==
    \A l \in GeneratedLoans :
        LET product == Products[l.product_id]
            customer == CustomerOf(l)
            eligible == customer.annual_income * IncomeMultiple(customer.credit_score)
        IN  /\ product.min_amount - 1 <= l.loan_amount
            /\ l.loan_amount <= Min(product.max_amount, eligible) + 1


----------------------------------------------------------------------------
(* Properties of CollateralGenerator *)

\* the collateral types of each category of detail record
PropertyCategory ==
    CollateralTypes.HomeLoan \cup {<<"Residential", "Property">>, <<"Land">>}

VehicleCategory == CollateralTypes.AutoLoan

BusinessAssetCategory ==
    {<<"Factory", "Building">>, <<"Warehouse">>, <<"Machinery">>, <<"Equipment">>,
     <<"Inventory">>}

\* C16: for every product type and every collateral type chosen for it,
\* generate_collateral_package does not fail, and in the package it returns
\* property_details, vehicle_details and business_asset_details are each a
\* record only when the collateral type is of that category, None otherwise
C16_DetailsByCategory ==
    entry = "generate_collateral_package" =>
        /\ pc # "raised"
        /\ pc = "done" =>
              LET type == package[1].collateral_type
              IN  /\ package[1].property_details # None => type \in PropertyCategory
                  /\ package[1].vehicle_details # None => type \in VehicleCategory
                  /\ package[1].business_asset_details # None
                         => type \in BusinessAssetCategory


----------------------------------------------------------------------------
(* Properties of FraudGenerator.generate_fraud_scenario_collateral_fraud *)

\* the alerts the shared-collateral scenario has emitted
CollateralAlerts ==
    SelectSeq(alerts, LAMBDA a : a.alert_type = "Multiple Applications Same Collateral")

\* the alerts whose description names a collateral id
Naming(collateral_id) ==
    SelectSeq(CollateralAlerts, LAMBDA a : a.described_collateral = Some(collateral_id))

\* the customers of the loans of a collateral id
CustomersOfGroup(collateral_id) ==
    {l.customer_id : l \in Rows(GroupOf(collateral_id))}

\* C20: the shared-collateral scenario emits alerts only for a collateral_id
\* that two loans or more of two customers or more name; for such a group it
\* emits nothing or one alert per loan of the group, each naming the
\* collateral_id in its description; a collateral_id of one loan, or of
\* several loans of one customer, gets no alert
C20_SharedCollateralAlerts ==
    /\ \A a \in Rows(CollateralAlerts) :
          /\ a.described_collateral # None
          /\ a.described_collateral[1] \in Rows(CollateralGroups)
    /\ \A g \in 1..Len(CollateralGroups) :
          LET collateral_id == CollateralGroups[g]
              group == GroupOf(collateral_id)
              emitted == Naming(collateral_id)
          IN  /\ emitted # <<>> =>
                    /\ Len(group) >= 2
                    /\ Cardinality(CustomersOfGroup(collateral_id)) >= 2
                    /\ Len(emitted) = Len(group)
                    /\ \A k \in 1..Len(group) :
                           /\ emitted[k].loan_id = Some(group[k].loan_id)
                           /\ emitted[k].customer_id = group[k].customer_id
              /\ Len(group) = 1 => emitted = <<>>
              /\ Cardinality(CustomersOfGroup(collateral_id)) = 1 => emitted = <<>>

\* the scenario has run over a collateral that two loans of two customers
\* name, and each of the two loans got its alert
C20_Witness ==
    /\ entry = "generate_all_fraud_scenarios"
    /\ pc = "fs_early"
    /\ \E g \in 1..Len(CollateralGroups) :
          /\ Cardinality(CustomersOfGroup(CollateralGroups[g])) >= 2
          /\ Len(Naming(CollateralGroups[g])) = 2


----------------------------------------------------------------------------
(* Properties of FraudGenerator.generate_all_fraud_scenarios as a whole *)

\* the alert_type of the alerts a scenario step appends
ScenarioType ==
    [fs_income     |-> "Income Mismatch",
     fs_collateral |-> "Multiple Applications Same Collateral",
     fs_early      |-> "Early Payment Default",
     fs_synthetic  |-> "Synthetic Identity"]

\* the place of an alert's scenario among the four
ScenarioRank(a) ==
    CHOOSE r \in 1..4 :
        a.alert_type = ScenarioType[<<"fs_income", "fs_collateral", "fs_early",
                                       "fs_synthetic">>[r]]

\* an alert without the resolution date the last step fills in
Unresolved(a) == [a EXCEPT !.resolution_date = None]

\* a step of generate_all_fraud_scenarios keeps every alert collected so far
\* in its place, a scenario adds alerts of its own type only, after them, and
\* the rest of the function adds and removes none
C21_Step ==
    /\ Len(alerts') >= Len(alerts)
    /\ \A k \in 1..Len(alerts) : Unresolved(alerts'[k]) = Unresolved(alerts[k])
    /\ \A k \in (Len(alerts) + 1)..Len(alerts') :
          /\ pc \in DOMAIN ScenarioType
          /\ alerts'[k].alert_type = ScenarioType[pc]
    /\ \A j, k \in 1..Len(alerts') :
          j < k => ScenarioRank(alerts'[j]) <= ScenarioRank(alerts'[k])

\* C21: generate_all_fraud_scenarios returns the alerts of the
\* income-mismatch, shared-collateral, early-default and synthetic-identity
\* scenarios concatenated in that order, none dropped or merged, so their
\* number is the sum of the four scenarios' numbers
C21_ScenariosConcatenated == [][C21_Step]_vars

\* the function has returned alerts of two scenarios for one loan
C21_Witness ==
    /\ FraudReturned
    /\ entry = "generate_all_fraud_scenarios"
    /\ \E j, k \in 1..Len(alerts) :
          /\ j < k
          /\ alerts[j].loan_id # None
          /\ alerts[j].loan_id = alerts[k].loan_id
          /\ ScenarioRank(alerts[j]) < ScenarioRank(alerts[k])


\* the impact fraction the claim gives each loan scenario, in percent
ClaimedFraction(alert_type) ==
    IF alert_type = "Income Mismatch" THEN 30
    ELSE IF alert_type = "Multiple Applications Same Collateral" THEN 60
    ELSE 40

\* C22: every alert that references a loan has a financial_impact between
\* 0.8 and 1.2 times the fraction of its scenario (0.30, 0.60, 0.40) times the
\* amount of the loan it references; an alert that references no loan has
\* impact 0.  Amounts in thousands, impact in rupees.
C22_ImpactWithinBand ==
    \A a \in Rows(alerts) :
        IF a.loan_id = None
        THEN a.alert_type = "Synthetic Identity" /\ a.financial_impact = 0
        ELSE \A l \in Rows(loans) :
                l.loan_id = a.loan_id[1] =>
                    /\ a.financial_impact >= l.loan_amount * ClaimedFraction(a.alert_type) * 8
                    /\ a.financial_impact <= l.loan_amount * ClaimedFraction(a.alert_type) * 12


----------------------------------------------------------------------------
(* Properties of LoanGenerator: collateral *)

\* the loan is disbursed
Disbursed(l) == l.disbursement_date # None

\* generate_collateral can return a collateral for the loan
CollateralPossible(l) ==
    \E multiplier \in 100..200, uuid \in CollateralUuids :
        LET collateral == generate_collateral(l.loan_amount, Products[l.product_id].type,
                                              multiplier, uuid)
        IN  /\ collateral # None
            /\ collateral[1].collateral_value > 0

\* C23: a disbursed loan of a product whose collateral flag is false has no
\* collateral_id, and a disbursed loan of a product whose collateral flag is
\* true can get one: generate_collateral returns a collateral_id, a
\* collateral_value and a loan_to_value_ratio for it
C23_CollateralIffEligible ==
    \A l \in GeneratedLoans :
        Disbursed(l) =>
            /\ ~Products[l.product_id].collateral =>
                  /\ l.collateral_id = None
                  /\ l.collateral_value = None
                  /\ l.loan_to_value_ratio = None
            /\ Products[l.product_id].collateral => CollateralPossible(l)


----------------------------------------------------------------------------
(* Properties of LoanGenerator.generate_batch_loans *)

\* generate_batch_loans has returned its concatenated frame
BatchLoansReturned == entry = "generate_batch_loans" /\ pc = "done"

\* C24: in the loan dataset generate_batch_loans returns, for any total and
\* batch_size, no two loans share a loan_id
C24_UniqueLoanIds ==
    BatchLoansReturned =>
        \A j, k \in 1..Len(loans) : j # k => loans[j].loan_id # loans[k].loan_id


----------------------------------------------------------------------------
(* Properties of the back-fill of generate_all_fraud_scenarios *)

\* the places in the returned alerts of those that reference the loan id
PlacesOf(loan_id) == {k \in 1..Len(alerts) : alerts[k].loan_id = Some(loan_id)}

\* the last returned alert that references the loan id
LastAlertOf(loan_id) ==
    alerts[CHOOSE k \in PlacesOf(loan_id) : \A j \in PlacesOf(loan_id) : j <= k]

\* C25: when several alerts reference one loan, after the back-fill the loan
\* has fraud_flag true and its fraud_type and fraud_detection_date are the
\* alert_type and detection_date of the last of them in the returned order
C25_LastAlertStays ==
    FraudReturned =>
        \A l \in Rows(loans) :
            Cardinality(PlacesOf(l.loan_id)) >= 2 =>
                /\ l.fraud_flag = TRUE
                /\ l.fraud_type = Some(LastAlertOf(l.loan_id).alert_type)
                /\ l.fraud_detection_date = Some(LastAlertOf(l.loan_id).detection_date)

\* a loan has been back-filled from the second of two alerts that differ in
\* type and in detection date
C25_Witness ==
    /\ FraudReturned
    /\ entry = "generate_all_fraud_scenarios"
    /\ \E l \in Rows(loans) :
          /\ Cardinality(PlacesOf(l.loan_id)) = 2
          /\ \E j \in PlacesOf(l.loan_id) :
                /\ alerts[j].alert_type # LastAlertOf(l.loan_id).alert_type
                /\ alerts[j].detection_date # LastAlertOf(l.loan_id).detection_date
          /\ l.fraud_type = Some(LastAlertOf(l.loan_id).alert_type)


----------------------------------------------------------------------------
(* Properties of TransactionGenerator.generate_transactions *)

\* generate_transactions has returned its frame
TransactionsReturned == entry = "generate_transactions" /\ pc = "done"

\* the returned transactions of active loan k
BlockOf(k) == SelectSeq(transactions, LAMBDA t : t.loan_id = ActiveLoans[k].loan_id)

\* the number of returned transactions of the active loans up to k
RECURSIVE CountUpTo(_)
CountUpTo(k) == IF k = 0 THEN 0 ELSE CountUpTo(k - 1) + Len(BlockOf(k))

\* the active loans that contributed transactions
ProcessedLoans == {k \in 1..Len(ActiveLoans) : BlockOf(k) # <<>>}

\* the last loan processed (0 when none was)
LastProcessed == IF ProcessedLoans = {} THEN 0
                 ELSE CHOOSE k \in ProcessedLoans : \A j \in ProcessedLoans : j <= k

\* the returned frame is made of the whole sequence of each processed loan, in
\* the order of the dataset, and the loop stopped after the first loan at
\* which the count reached n
WholeSequencesUntilTarget ==
    LET n == cfg.num_transactions
    IN  /\ transactions = Concat([k \in 1..Len(ActiveLoans) |-> BlockOf(k)])
        /\ ProcessedLoans = 1..LastProcessed
        /\ \A k \in ProcessedLoans :
              \E d \in TxnDraws, u \in TxnUuidBases :
                  BlockOf(k) = generate_transactions_for_loan(ActiveLoans[k], d, u)
        /\ \A k \in ProcessedLoans : k < LastProcessed => CountUpTo(k) < n
        /\ LastProcessed < Len(ActiveLoans) => Len(transactions) >= n

\* the total is below n plus the length of the last processed loan's sequence
BelowTargetPlusLast ==
    LastProcessed > 0 =>
        Len(transactions) < cfg.num_transactions + Len(BlockOf(LastProcessed))

\* C26 as stated: generate_transactions processes the disbursed loans in
\* dataset order, appends each processed loan's whole sequence, stops after
\* the first loan at which the count reaches n, and returns fewer than n plus
\* the length of the last processed loan's sequence
C26_StopsAtTarget ==
    TransactionsReturned => WholeSequencesUntilTarget /\ BelowTargetPlusLast

\* C26 as amended: the same, the bound on the total being claimed for a
\* target n of 1 or more
C26_StopsAtPositiveTarget ==
    TransactionsReturned =>
        /\ WholeSequencesUntilTarget
        /\ cfg.num_transactions >= 1 => BelowTargetPlusLast

\* the loop stopped after the second loan's whole sequence, the first one
\* having left the count below the target
C26_Witness ==
    /\ TransactionsReturned
    /\ cfg.num_transactions = 4
    /\ LastProcessed = 2
    /\ CountUpTo(1) < 4
    /\ Len(transactions) > 4


----------------------------------------------------------------------------
(* Properties of generate_all: the files left behind *)

\* C27: when generate_all completes, loans.csv holds exactly the loans of the
\* returned loan dataset, with the fraud fields as returned, whatever the
\* number of loan batches and whether or not any alert was produced
C27_LoansFileIsReturnedLoans ==
    (entry = "generate_all" /\ pc = "ga_done") => csv.loans = Some(Returned.loans)


----------------------------------------------------------------------------
(* Properties of generate_all: the scenarios that find no candidate *)

\* the customers CustomerGenerator has made so far
GeneratedCustomers == Rows(custList) \cup Rows(customers)

\* the synthetic-identity scenario has run
SyntheticScenarioDone ==
    entry = "generate_all" /\ pc \in {"fs_finish", "ga_step5", "ga_done"}

\* C28: generate_credit_score never returns a value below 550, every score
\* lies in 550..900, so no customer CustomerGenerator makes is a candidate of
\* the synthetic-identity scenario and generate_all emits no 'Synthetic
\* Identity' alert
C28_NoSyntheticIdentity ==
    entry = "generate_all" =>
        /\ \A c \in GeneratedCustomers : c.credit_score \in 550..900
        /\ SyntheticCandidates = <<>>
        /\ \A a \in Rows(alerts) : a.alert_type # "Synthetic Identity"

\* the scenario has run over a customer who meets its conditions on age and
\* acquisition date and whose score is the lowest one possible
C28_Witness ==
    /\ SyntheticScenarioDone
    /\ \E c \in Rows(customers) :
          /\ c.credit_score = 550
          /\ c.age > 25
          /\ c.acquisition_date > now - 180


\* the income-mismatch scenario has run
IncomeScenarioDone ==
    entry = "generate_all"
    /\ pc \in {"fs_collateral", "fs_early", "fs_synthetic", "fs_finish", "ga_step5", "ga_done"}

\* C29: no loan LoanGenerator makes for a customer whose credit_score is
\* below 600 has a loan_amount above three times the customer's
\* annual_income, so in generate_all the income-mismatch scenario has no
\* candidate and emits no alert
C29_NoIncomeMismatch ==
    entry = "generate_all" =>
        /\ \A l \in GeneratedLoans, c \in GeneratedCustomers :
              (c.customer_id = l.customer_id /\ c.credit_score < 600)
                  => l.loan_amount <= 3 * c.annual_income
        /\ SuspiciousLoans = <<>>
        /\ \A a \in Rows(alerts) : a.alert_type # "Income Mismatch"

\* the scenario has run over an overdue loan of a customer with a score below
\* 600 and an income below 800,000, the loan being three times the income
C29_Witness ==
    /\ IncomeScenarioDone
    /\ \E l \in Rows(loans), c \in Rows(customers) :
          /\ c.customer_id = l.customer_id
          /\ c.customer_id \in HighRiskCustomers
          /\ l.loan_status \in {"Active", "Overdue"}
          /\ l.loan_amount = 3 * c.annual_income


----------------------------------------------------------------------------
(* DataValidator called on its own, on datasets a caller hands over *)

\* What a row of a handed-over customer frame can lack or have wrong
Defects ==
    [no_first_name : BOOLEAN, no_last_name : BOOLEAN, no_date_of_birth : BOOLEAN,
     credit_score : {0, 1000}, age : {0, 5}, annual_income : {0, -1}]

\* a generated customer with the defects put in (0 leaves the field as it is)
Defective(c, x) ==
    [c EXCEPT !.first_name    = IF x.no_first_name THEN None ELSE @,
              !.last_name     = IF x.no_last_name THEN None ELSE @,
              !.date_of_birth = IF x.no_date_of_birth THEN None ELSE @,
              !.credit_score  = IF x.credit_score # 0 THEN x.credit_score ELSE @,
              !.age           = IF x.age # 0 THEN x.age ELSE @,
              !.annual_income = IF x.annual_income # 0 THEN x.annual_income ELSE @]

\* the customer frames handed over: two generated customers, the first with
\* any of the defects, the second with the id of the first or its own
InputCustomerFrames ==
    {<<Defective(cs[1], x), [cs[2] EXCEPT !.customer_id = id]>> :
        cs \in {c \in LoanInputCustomers : c[1].is_active /\ c[2].is_active},
        x \in Defects, id \in {CustomerId(0), CustomerId(1)}}

\* the loan frames handed over, with the transactions of their first loan
InputLoanFrames ==
    {f \in TxnFrames : /\ f.loans[1].disbursement_date # None
                       /\ f.loans[1].application_date = TxnToday - 200
                       /\ f.loans[1].days_past_due = 0
                       /\ f.loans[2].product_id = "BL002"
                       /\ f.loans[2].npa_flag}

InitValid ==
    /\ entry = "DataValidator"
    /\ cfg = [num_customers |-> 2, batch_size |-> 1, num_loans |-> 2,
              loan_batch_size |-> 2, num_transactions |-> 0, validate |-> TRUE]
    /\ now = TxnToday
    /\ pc = "dv_call"
    /\ ctl = [i |-> 0, n |-> 0, b |-> 0]
    /\ custList = <<>>
    /\ custDfs = <<>>
    /\ customers \in InputCustomerFrames
    /\ loanList = <<>>
    /\ loanDfs = <<>>
    /\ \E f \in InputLoanFrames :
          /\ loans = f.loans
          /\ \E d \in {x \in TxnDraws : x.last_status = "Success"} :
                transactions = generate_transactions_for_loan(f.loans[1], d, 4000)
          /\ \E d \in {x \in AlertDraws : x.noise = 0} :
                alerts \in {<<>>, <<EarlyDefaultAlert(f.loans[2], d, 3001)>>}
    /\ csv = NoCsv
    /\ log = <<>>
    /\ rng = NoReplay
    /\ report = None
    /\ first = None
    /\ package = None

\* DataValidator.validate_customers(customers) returns its results
CallValidateCustomers ==
    /\ pc = "dv_call"
    /\ report' = Some(validate_customers(customers))
    /\ pc' = "done"
    /\ UNCHANGED <<entry, ctl, cfg, now, custVars, loanVars, alerts, csv, log, rng,
                   transactions, first, package>>

\* DataValidator.validate_loans(loans) returns its results
CallValidateLoans ==
    /\ pc = "dv_call"
    /\ report' = Some(validate_loans(loans))
    /\ pc' = "done"
    /\ UNCHANGED <<entry, ctl, cfg, now, custVars, loanVars, alerts, csv, log, rng,
                   transactions, first, package>>

\* DataValidator.validate_transactions(transactions) returns its results
CallValidateTransactions ==
    /\ pc = "dv_call"
    /\ report' = Some(validate_transactions(transactions))
    /\ pc' = "done"
    /\ UNCHANGED <<entry, ctl, cfg, now, custVars, loanVars, alerts, csv, log, rng,
                   transactions, first, package>>

\* DataValidator.validate_fraud_alerts(alerts) returns its results
CallValidateFraudAlerts ==
    /\ pc = "dv_call"
    /\ report' = Some(validate_fraud_alerts(alerts))
    /\ pc' = "done"
    /\ UNCHANGED <<entry, ctl, cfg, now, custVars, loanVars, alerts, csv, log, rng,
                   transactions, first, package>>

NextValid ==
    \/ CallValidateCustomers
    \/ CallValidateLoans
    \/ CallValidateTransactions
    \/ CallValidateFraudAlerts

SpecValid == InitValid /\ [][NextValid]_vars

----------------------------------------------------------------------------
(* Properties of DataValidator called on its own *)

\* C30: for every input dataset, the pass_rate each of validate_customers,
\* validate_loans, validate_transactions and validate_fraud_alerts returns
\* lies in [0, 1]: the recorded errors never outnumber the recorded checks
C30_PassRateInUnitInterval ==
    (entry = "DataValidator" /\ pc = "done") =>
        /\ report[1].pass_rate[1] >= 0
        /\ report[1].pass_rate[1] <= report[1].pass_rate[2]
        /\ Len(report[1].errors) <= Max(Cardinality(report[1].checks), 1)

=============================================================================
